---- MODULE Spec2Model ----
(***************************************************************************)
(* Requirement-extraction and gap-assessment pipeline of the AI-regulation *)
(* compliance backend: the requirement aggregator                          *)
(* (ComplianceExtractor._deduplicate_requirements), the evidence-chunk     *)
(* merge (OpenAIService._merge_compliance_findings), the fallback keyword  *)
(* assessor and the score aggregator (DocumentAssessor), and the           *)
(* questionnaire scoring (FormGenerator).                                  *)
(*                                                                         *)
(* Python strings are TLA+ strings; Len, SubSeq and \o act on them as      *)
(* len(), slicing and + do.  Every subsystem has its own program counter;  *)
(* a subsystem whose counter is "idle" takes no step.                      *)
(***************************************************************************)
EXTENDS Integers, Sequences, FiniteSets, TLC

VARIABLES
    \* ---- ComplianceExtractor._extract_with_chunking
    agg_pc,              \* "idle" | "chunking" | "done" | "mock_fallback"
    chunk_i,             \* number of chunks processed so far
    all_requirements,    \* accumulator of the per-chunk requirement lists
    final_requirements,  \* result of _deduplicate_requirements
    \* ---- OpenAIService._analyze_with_chunking / _merge_compliance_findings
    merge_pc,            \* "idle" | "analyzing" | "merged" | "mock"
    merge_i,             \* number of evidence chunks analysed so far
    all_findings,        \* findings collected from the chunks, in chunk order
    final_findings,      \* list(unique_findings.values()) after the merge
    status_counts,       \* summary counts of the merged findings
    \* ---- DocumentAssessor._fallback_text_analysis
    fb_pc,               \* "idle" | "ready" | "done"
    fb_company_text,     \* the evidence text
    fb_requirements,     \* the requirements to assess
    fb_assessments,      \* the assessments returned
    \* ---- DocumentAssessor.assess_document
    ad_pc,               \* "idle" | "start" | "assessing" | "committed" | "rolled_back"
    ad_company_text,     \* text extracted from the company document
    ad_catalog,          \* _get_organization_requirements: the active requirements
    ad_assistants,       \* the jurisdictions that have an assistant_id
    ad_todo,             \* jurisdictions still to process, in dict order
    all_assessments,     \* the assessment records created so far
    ad_session,          \* the AssessmentSession object of this run
    ad_db,               \* what the database holds committed from this run
    \* ---- FormGenerator.process_questionnaire_submission
    qs_pc,               \* "idle" | "start" | "committed" | "rolled_back"
    qs_questions,        \* the questions in questionnaire order, each with its response
    qs_session,          \* the AssessmentSession object of this submission
    qs_db,               \* what the database holds committed from this submission
    \* ---- the segmenters (OpenAIService and ComplianceExtractor chunking)
    seg_pc,              \* "idle" | "start" | "user_chunks" | "regulatory_chunks"
    seg_text,            \* the document text
    seg_max_chars,       \* the chunk size
    seg_framework,       \* the framework of a regulatory document
    seg_chunks,          \* the chunks returned
    \* ---- the parse step of a raw LLM response
    parse_pc,            \* "idle" | "start" | "extractor_parsed" | "assistant_parsed"
    parse_result,        \* the raw response text
    parse_framework,     \* the framework of the extraction run
    chunk_requirements,   \* what the parse step returned
    \* ---- process_compliance_document / extract_compliance_requirements_from_admin_document
    uploads,             \* per upload task: its position, its session and its document row
    catalog,             \* committed compliance_requirements rows of the jurisdiction
    jurisdiction_assistant, \* jurisdiction.assistant_id as committed: 0 or the creating upload
    provider_assistants, \* the uploads whose assistant exists at the provider
    \* ---- the waits for an assistant run (AssistantManager, FormGenerator)
    poll_pc,             \* "idle" | "waiting" | "sleeping" | "returned"
    poll_fn,             \* the function that waits
    run_status,          \* the run status last given by the provider
    poll_elapsed,        \* seconds since the run was created
    poll_result,         \* "none" | "parsed" | "empty" | "templates"
    \* ---- ComplianceExtractor.extract_requirements
    ex_pc,               \* "idle" | "start" | "extracting" | "cleanup" | "after" | "chunking" | "done"
    ex_args,             \* client configured, framework, use_assistant_api, keep_assistant
    ex_calls,            \* calls made to the LLM provider in this call
    ex_provider,         \* resources created at the provider and not deleted
    ex_metadata,         \* extraction_metadata: method and assistant_id
    ex_requirements,     \* the local variable requirements
    ex_results           \* what the calls made so far returned, in order

aggVars == <<agg_pc, chunk_i, all_requirements, final_requirements>>
mergeVars == <<merge_pc, merge_i, all_findings, final_findings, status_counts>>

fbVars == <<fb_pc, fb_company_text, fb_requirements, fb_assessments>>

adVars == <<ad_pc, ad_company_text, ad_catalog, ad_assistants, ad_todo,
           all_assessments, ad_session, ad_db>>

qsVars == <<qs_pc, qs_questions, qs_session, qs_db>>

segVars == <<seg_pc, seg_text, seg_max_chars, seg_framework, seg_chunks>>

parseVars == <<parse_pc, parse_result, parse_framework, chunk_requirements>>
upVars == <<uploads, catalog, jurisdiction_assistant, provider_assistants>>
pollVars == <<poll_pc, poll_fn, run_status, poll_elapsed, poll_result>>
exVars == <<ex_pc, ex_args, ex_calls, ex_provider, ex_metadata, ex_requirements, ex_results>>

vars == <<aggVars, mergeVars, fbVars, adVars, qsVars, segVars, parseVars, upVars, pollVars, exVars>>

(***************************************************************************)
(* String helpers (Python built-ins used by the code).                     *)
(***************************************************************************)
UpperAlphabet == "ABCDEFGHIJKLMNOPQRSTUVWXYZ"
LowerAlphabet == "abcdefghijklmnopqrstuvwxyz"

\* str.lower() on one character, as a table over the upper-case letters
LowerTable ==
    [c \in {SubSeq(UpperAlphabet, i, i) : i \in 1..26} |->
        LET i == CHOOSE k \in 1..26 : SubSeq(UpperAlphabet, k, k) = c
        IN SubSeq(LowerAlphabet, i, i)]

LowerChar(c) == IF c \in DOMAIN LowerTable THEN LowerTable[c] ELSE c

RECURSIVE Lower(_)
\* str.lower()
Lower(s) ==
    IF Len(s) = 0 THEN ""
    ELSE LowerChar(SubSeq(s, 1, 1)) \o Lower(SubSeq(s, 2, Len(s)))

\* Python's `s in t` on strings
IsSubstring(s, t) ==
    \E i \in 0..(Len(t) - Len(s)) : SubSeq(t, i + 1, i + Len(s)) = s

Abs(n) == IF n < 0 THEN -n ELSE n

\* whitespace as str.split() and str.strip() see it
IsSpace(c) == c \in {" ", "\t", "\n", "\r"}

RECURSIVE SplitWhitespaceFrom(_, _, _)
SplitWhitespaceFrom(s, word, acc) ==
    IF Len(s) = 0 THEN (IF word = "" THEN acc ELSE Append(acc, word))
    ELSE LET c == SubSeq(s, 1, 1)
             rest == SubSeq(s, 2, Len(s))
         IN IF IsSpace(c)
            THEN SplitWhitespaceFrom(rest, "",
                                     IF word = "" THEN acc ELSE Append(acc, word))
            ELSE SplitWhitespaceFrom(rest, word \o c, acc)

\* str.split(): the maximal runs of non-whitespace
SplitWhitespace(s) == SplitWhitespaceFrom(s, "", <<>>)

RECURSIVE SplitOnFrom(_, _, _, _)
SplitOnFrom(s, sep, piece, acc) ==
    IF Len(s) = 0 THEN Append(acc, piece)
    ELSE LET c == SubSeq(s, 1, 1)
             rest == SubSeq(s, 2, Len(s))
         IN IF c = sep
            THEN SplitOnFrom(rest, sep, "", Append(acc, piece))
            ELSE SplitOnFrom(rest, sep, piece \o c, acc)

\* str.split(sep) for a one-character separator: empty pieces are kept
SplitOn(s, sep) == SplitOnFrom(s, sep, "", <<>>)

RECURSIVE StripLeft(_)
StripLeft(s) ==
    IF Len(s) > 0 /\ IsSpace(SubSeq(s, 1, 1))
    THEN StripLeft(SubSeq(s, 2, Len(s))) ELSE s

RECURSIVE StripRight(_)
StripRight(s) ==
    IF Len(s) > 0 /\ IsSpace(SubSeq(s, Len(s), Len(s)))
    THEN StripRight(SubSeq(s, 1, Len(s) - 1)) ELSE s

\* str.strip()
Strip(s) == StripLeft(StripRight(s))

RECURSIVE Join(_, _)
\* sep.join(parts)
Join(sep, parts) ==
    IF Len(parts) = 0 THEN ""
    ELSE IF Len(parts) = 1 THEN parts[1]
    ELSE parts[1] \o sep \o Join(sep, Tail(parts))

\* seq[:n]
Take(seq, n) == SubSeq(seq, 1, IF Len(seq) < n THEN Len(seq) ELSE n)

RECURSIVE Repeat(_, _)
\* Python's c * n
Repeat(c, n) == IF n = 0 THEN "" ELSE c \o Repeat(c, n - 1)

(***************************************************************************)
(* Requirement aggregator                                                  *)
(***************************************************************************)
MaxChunks == 3

\* requirement_id values a chunk may emit; "" is a missing or empty id
\* (req.get("requirement_id", ""))
ReqIdPool == {"", "Art_5", "Art_6"}

\* titles; "" is a missing title.  "q" / "Prohibit X" / "Transparency duties"
\* have lengths 1 / 10 / 19 and none contains another; "D" is contained in
\* "Transparency duties" only once both are lower-cased.
TitlePool == {"", "q", "D", "Prohibit X", "Transparency duties"}

Desc40 == Repeat("d", 40)
Desc120 == Repeat("d", 120)
DescPool == {Desc40, Desc120}

RequirementRecords ==
    [requirement_id : ReqIdPool, title : TitlePool, description : DescPool]

\* the similarity test of the inner loop, on already lower-cased titles
TitlesSimilar(title, existing_title) ==
    /\ title # ""
    /\ existing_title # ""
    /\ \/ IsSubstring(title, existing_title)
       \/ IsSubstring(existing_title, title)
       \/ Abs(Len(title) - Len(existing_title)) < 10

\* index of the first element of unique_requirements the inner loop stops at
\* (0: the loop runs to its end)
FirstSimilar(req, unique_requirements) ==
    LET title == Lower(req.title)
        hits == {k \in 1..Len(unique_requirements) :
                    TitlesSimilar(title, Lower(unique_requirements[k].title))}
    IN IF hits = {} THEN 0 ELSE CHOOSE k \in hits : \A m \in hits : k <= m

\* list.remove(x): drops the first element equal to x
RemoveFirst(seq, x) ==
    LET k == CHOOSE i \in 1..Len(seq) :
                 seq[i] = x /\ \A m \in 1..(i - 1) : seq[m] # x
    IN SubSeq(seq, 1, k - 1) \o SubSeq(seq, k + 1, Len(seq))

\* the outer-loop iteration without its "req_id in seen_ids" test, for
\* comparison with DedupStep
DedupStepNoIdSkip(req, seen_ids, unique_requirements) ==
    LET k == FirstSimilar(req, unique_requirements)
    IN IF k = 0
       THEN <<seen_ids \cup {req.requirement_id}, Append(unique_requirements, req)>>
       ELSE IF Len(req.description) > Len(unique_requirements[k].description)
            THEN <<seen_ids \cup {req.requirement_id},
                   Append(RemoveFirst(unique_requirements, unique_requirements[k]), req)>>
            ELSE <<seen_ids, unique_requirements>>

\* one iteration of the outer loop: <<seen_ids, unique_requirements>> after req
DedupStep(req, seen_ids, unique_requirements) ==
    IF req.requirement_id \in seen_ids
    THEN <<seen_ids, unique_requirements>>
    ELSE LET k == FirstSimilar(req, unique_requirements)
         IN IF k = 0
            THEN <<seen_ids \cup {req.requirement_id},
                   Append(unique_requirements, req)>>
            ELSE IF Len(req.description) > Len(unique_requirements[k].description)
                 THEN <<seen_ids \cup {req.requirement_id},
                        Append(RemoveFirst(unique_requirements,
                                           unique_requirements[k]), req)>>
                 ELSE <<seen_ids, unique_requirements>>

RECURSIVE DedupLoop(_, _, _)
DedupLoop(requirements, seen_ids, unique_requirements) ==
    IF requirements = <<>> THEN unique_requirements
    ELSE LET s == DedupStep(Head(requirements), seen_ids, unique_requirements)
         IN DedupLoop(Tail(requirements), s[1], s[2])

_deduplicate_requirements(requirements) == DedupLoop(requirements, {}, <<>>)

\* ---- actions of _extract_with_chunking

\* mock_data.get(framework, []) in place of the eu_ai_act default, for
\* comparison with _get_mock_requirements
MockRequirementsNoDefault(framework) ==
    IF framework = "eu_ai_act"
    THEN <<[requirement_id |-> "Article_5.1.a",
            title |-> "Prohibition of subliminal techniques",
            description |-> "AI systems that deploy subliminal techniques beyond a person's consciousness to materially distort their behaviour are prohibited."],
           [requirement_id |-> "Article_6.1",
            title |-> "High-risk AI system classification",
            description |-> "AI systems listed in Annex III shall be considered high-risk AI systems."]>>
    ELSE <<>>

\* the mock requirements of a framework, as far as the aggregator reads them
_get_mock_requirements(framework) ==
    CASE framework = "iso_42001" ->
            <<[requirement_id |-> "Clause_4.1",
               title |-> "Understanding the organization and its context",
               description |-> "The organization shall determine external and internal issues relevant to its purpose and strategic direction."],
              [requirement_id |-> "Clause_5.1",
               title |-> "Leadership and commitment",
               description |-> "Top management shall demonstrate leadership and commitment with respect to the AI management system."]>>
      [] framework = "us_ai_governance" ->
            <<[requirement_id |-> "GOVERN-1.1",
               title |-> "AI governance structure",
               description |-> "Policies, processes, procedures, and practices across the organization related to the mapping, measuring, and managing of AI risks are in place."],
              [requirement_id |-> "MAP-1.1",
               title |-> "AI system identification",
               description |-> "Context and business value of AI systems are documented."]>>
      [] OTHER ->
            <<[requirement_id |-> "Article_5.1.a",
               title |-> "Prohibition of subliminal techniques",
               description |-> "AI systems that deploy subliminal techniques beyond a person's consciousness to materially distort their behaviour are prohibited."],
              [requirement_id |-> "Article_6.1",
               title |-> "High-risk AI system classification",
               description |-> "AI systems listed in Annex III shall be considered high-risk AI systems."]>>

\* an element of all_requirements that is not a dict
NotADict == [not_a_dict |-> "text"]

IsDict(req) == "not_a_dict" \notin DOMAIN req

\* a chunk whose LLM call and parse succeed: its requirements (possibly none)
\* are appended to the accumulator
ExtractChunk ==
    /\ agg_pc = "chunking"
    /\ chunk_i < MaxChunks
    /\ \E parsed \in {<<>>} \cup {<<r>> : r \in RequirementRecords} :
          all_requirements' = all_requirements \o parsed
    /\ chunk_i' = chunk_i + 1
    /\ UNCHANGED <<agg_pc, final_requirements>>
    /\ UNCHANGED <<mergeVars, fbVars, adVars, qsVars, segVars, parseVars, upVars, pollVars, exVars>>

\* a chunk whose response holds no usable JSON: _parse_extraction_result
\* returns the mock requirements (here of an "eu_ai_act" run) and they are
\* appended like extracted ones
ExtractChunkUnparsable ==
    /\ agg_pc = "chunking"
    /\ chunk_i < MaxChunks
    /\ all_requirements' = all_requirements \o _get_mock_requirements("eu_ai_act")
    /\ chunk_i' = chunk_i + 1
    /\ UNCHANGED <<agg_pc, final_requirements>>
    /\ UNCHANGED <<mergeVars, fbVars, adVars, qsVars, segVars, parseVars, upVars, pollVars, exVars>>

\* a chunk whose processing raises: logged, the loop continues
ExtractChunkFails ==
    /\ agg_pc = "chunking"
    /\ chunk_i < MaxChunks
    /\ chunk_i' = chunk_i + 1
    /\ UNCHANGED <<agg_pc, all_requirements, final_requirements>>
    /\ UNCHANGED <<mergeVars, fbVars, adVars, qsVars, segVars, parseVars, upVars, pollVars, exVars>>

\* a chunk whose JSON parses but whose "requirements" value holds an element
\* that is not a dict (a list of strings, or a string or dict, which extend()
\* takes apart into strings): _parse_extraction_result returns the value
\* unchecked and the element is appended like a requirement
ExtractChunkWrongType ==
    /\ agg_pc = "chunking"
    /\ chunk_i < MaxChunks
    /\ all_requirements' = Append(all_requirements, NotADict)
    /\ chunk_i' = chunk_i + 1
    /\ UNCHANGED <<agg_pc, final_requirements>>
    /\ UNCHANGED <<mergeVars, fbVars, adVars, qsVars, segVars, parseVars, upVars, pollVars, exVars>>

\* after the last chunk: deduplicate and return
Deduplicate ==
    /\ agg_pc = "chunking"
    /\ chunk_i = MaxChunks
    /\ \A k \in 1..Len(all_requirements) : IsDict(all_requirements[k])
    /\ final_requirements' = _deduplicate_requirements(all_requirements)
    /\ agg_pc' = "done"
    /\ UNCHANGED <<chunk_i, all_requirements>>
    /\ UNCHANGED <<mergeVars, fbVars, adVars, qsVars, segVars, parseVars, upVars, pollVars, exVars>>

\* after the last chunk, an element that is not a dict: req.get raises in
\* _deduplicate_requirements, outside the per-chunk try; the except of
\* extract_requirements returns the mock requirements (here of an
\* "eu_ai_act" run) with method 'mock_fallback'
DeduplicateRaises ==
    /\ agg_pc = "chunking"
    /\ chunk_i = MaxChunks
    /\ \E k \in 1..Len(all_requirements) : ~IsDict(all_requirements[k])
    /\ final_requirements' = _get_mock_requirements("eu_ai_act")
    /\ agg_pc' = "mock_fallback"
    /\ UNCHANGED <<chunk_i, all_requirements>>
    /\ UNCHANGED <<mergeVars, fbVars, adVars, qsVars, segVars, parseVars, upVars, pollVars, exVars>>

AggIdle ==
    /\ agg_pc = "idle"
    /\ chunk_i = 0
    /\ all_requirements = <<>>
    /\ final_requirements = <<>>

AggStart ==
    /\ agg_pc = "chunking"
    /\ chunk_i = 0
    /\ all_requirements = <<>>
    /\ final_requirements = <<>>

NextAggregate ==
    \/ ExtractChunk
    \/ ExtractChunkUnparsable
    \/ ExtractChunkFails
    \/ ExtractChunkWrongType
    \/ Deduplicate
    \/ DeduplicateRaises

(***************************************************************************)
(* Evidence-chunk merge (OpenAIService)                                    *)
(***************************************************************************)
MaxEvidenceChunks == 3

\* a key the LLM left out of a finding (dict.get returns None)
Missing == "<missing>"

\* rule_id values; "" and Missing are falsy and make the merge skip the finding
RuleIdPool == {Missing, "r1", "r2"}

\* the prompt asks for conform | partial | non_conform; the model may answer
\* anything else, or leave the key out
FindingStatusPool == {"conform", "partial", "non_conform", "not_addressed", Missing}

EvidencePool == {Missing, "e1", "e2"}

Findings == [rule_id : RuleIdPool, status : FindingStatusPool, evidence : EvidencePool]

\* truthiness of an optional string value
Truthy(v) == v # Missing /\ v # ""

\* dict.get(key, "") on an optional string value
GetOrEmpty(v) == IF v = Missing THEN "" ELSE v

\* "Use the most severe status": the status of the kept finding after a later
\* finding for the same rule
EscalateStatus(existing_status, finding_status) ==
    IF finding_status = "non_conform" THEN "non_conform"
    ELSE IF finding_status = "partial" /\ existing_status # "non_conform"
         THEN "partial"
    ELSE existing_status

\* position of rule_id in the insertion-ordered dict unique_findings (0: absent)
FindingIndex(unique_findings, rule_id) ==
    IF \E k \in 1..Len(unique_findings) : unique_findings[k].rule_id = rule_id
    THEN CHOOSE k \in 1..Len(unique_findings) : unique_findings[k].rule_id = rule_id
    ELSE 0

\* one iteration of the merge loop: [raised, unique_findings].
\* existing["evidence"] += ... raises KeyError when the kept finding has no
\* evidence key.
MergeStep(finding, unique_findings) ==
    IF ~Truthy(finding.rule_id)
    THEN [raised |-> FALSE, unique_findings |-> unique_findings]
    ELSE LET k == FindingIndex(unique_findings, finding.rule_id)
         IN IF k = 0
            THEN [raised |-> FALSE,
                  unique_findings |-> Append(unique_findings, finding)]
            ELSE LET existing == unique_findings[k]
                     append_evidence ==
                         /\ Truthy(finding.evidence)
                         /\ ~IsSubstring(finding.evidence, GetOrEmpty(existing.evidence))
                 IN IF append_evidence /\ existing.evidence = Missing
                    THEN [raised |-> TRUE, unique_findings |-> unique_findings]
                    ELSE [raised |-> FALSE,
                          unique_findings |->
                              [unique_findings EXCEPT ![k] =
                                  [rule_id |-> existing.rule_id,
                                   status |-> EscalateStatus(existing.status,
                                                             finding.status),
                                   evidence |->
                                       IF append_evidence
                                       THEN existing.evidence \o " | "
                                                \o finding.evidence
                                       ELSE existing.evidence]]]

RECURSIVE MergeLoop(_, _)
MergeLoop(findings, unique_findings) ==
    IF findings = <<>> THEN [raised |-> FALSE, unique_findings |-> unique_findings]
    ELSE LET s == MergeStep(Head(findings), unique_findings)
         IN IF s.raised THEN s
            ELSE MergeLoop(Tail(findings), s.unique_findings)

\* status_counts of the merged findings; a finding without a status key is
\* counted as non_conform (finding.get("status", "non_conform"))
CountStatus(findings, status) ==
    Cardinality({k \in 1..Len(findings) :
        (IF findings[k].status = Missing THEN "non_conform"
         ELSE findings[k].status) = status})

StatusCounts(findings) ==
    [conform |-> CountStatus(findings, "conform"),
     partial |-> CountStatus(findings, "partial"),
     non_conform |-> CountStatus(findings, "non_conform")]

NoCounts == [conform |-> 0, partial |-> 0, non_conform |-> 0]

\* ---- actions of _analyze_with_chunking

\* a chunk whose analysis parsed: its findings (here at most one) are collected
AnalyzeChunk ==
    /\ merge_pc = "analyzing"
    /\ merge_i < MaxEvidenceChunks
    /\ \E chunk_findings \in {<<>>} \cup {<<f>> : f \in Findings} :
          all_findings' = all_findings \o chunk_findings
    /\ merge_i' = merge_i + 1
    /\ UNCHANGED <<merge_pc, final_findings, status_counts>>
    /\ UNCHANGED <<aggVars, fbVars, adVars, qsVars, segVars, parseVars, upVars, pollVars, exVars>>

\* a chunk whose LLM call raised: logged, the loop continues
AnalyzeChunkFails ==
    /\ merge_pc = "analyzing"
    /\ merge_i < MaxEvidenceChunks
    /\ merge_i' = merge_i + 1
    /\ UNCHANGED <<merge_pc, all_findings, final_findings, status_counts>>
    /\ UNCHANGED <<aggVars, fbVars, adVars, qsVars, segVars, parseVars, upVars, pollVars, exVars>>

\* after the last chunk: _merge_compliance_findings
MergeFindings ==
    /\ merge_pc = "analyzing"
    /\ merge_i = MaxEvidenceChunks
    /\ ~MergeLoop(all_findings, <<>>).raised
    /\ final_findings' = MergeLoop(all_findings, <<>>).unique_findings
    /\ status_counts' = StatusCounts(final_findings')
    /\ merge_pc' = "merged"
    /\ UNCHANGED <<merge_i, all_findings>>
    /\ UNCHANGED <<aggVars, fbVars, adVars, qsVars, segVars, parseVars, upVars, pollVars, exVars>>

\* the merge raised: analyze_document_compliance catches it and returns the
\* mock analysis instead
MergeRaises ==
    /\ merge_pc = "analyzing"
    /\ merge_i = MaxEvidenceChunks
    /\ MergeLoop(all_findings, <<>>).raised
    /\ merge_pc' = "mock"
    /\ UNCHANGED <<merge_i, all_findings, final_findings, status_counts>>
    /\ UNCHANGED <<aggVars, fbVars, adVars, qsVars, segVars, parseVars, upVars, pollVars, exVars>>

MergeIdle ==
    /\ merge_pc = "idle"
    /\ merge_i = 0
    /\ all_findings = <<>>
    /\ final_findings = <<>>
    /\ status_counts = NoCounts

MergeStart ==
    /\ merge_pc = "analyzing"
    /\ merge_i = 0
    /\ all_findings = <<>>
    /\ final_findings = <<>>
    /\ status_counts = NoCounts

NextMerge == AnalyzeChunk \/ AnalyzeChunkFails \/ MergeFindings \/ MergeRaises

(***************************************************************************)
(* Fallback keyword assessor (DocumentAssessor)                            *)
(***************************************************************************)
MaxFallbackReqs == 2

\* confidence values are kept in hundredths: 0.7 is 70
FALLBACK_CONFIDENCE == 70

key_terms ==
    <<"human oversight", "bias testing", "transparency", "risk assessment",
      "data governance", "monitoring", "documentation", "training",
      "approval process", "review", "audit", "compliance", "policy",
      "procedure", "control", "measure", "assessment", "evaluation">>

generic_words == {"shall", "must", "should", "will", "system", "systems"}

IsImportantWord(w) == Len(w) > 4 /\ w \notin generic_words

RECURSIVE TermsIn(_, _)
\* [term for term in terms if term in description_lower]
TermsIn(terms, description_lower) ==
    IF terms = <<>> THEN <<>>
    ELSE (IF IsSubstring(Head(terms), description_lower)
          THEN <<Head(terms)>> ELSE <<>>)
         \o TermsIn(Tail(terms), description_lower)

RECURSIVE ImportantWords(_)
\* [w for w in words if len(w) > 4 and w not in [...]]
ImportantWords(words) ==
    IF words = <<>> THEN <<>>
    ELSE (IF IsImportantWord(Head(words)) THEN <<Head(words)>> ELSE <<>>)
         \o ImportantWords(Tail(words))

_extract_key_concepts(description) ==
    LET description_lower == Lower(description)
        concepts == TermsIn(key_terms, description_lower)
    IN IF concepts # <<>> THEN concepts
       ELSE Take(ImportantWords(SplitWhitespace(description_lower)), 3)

\* the sentence appended to matches for a concept found in company_lower:
\* the first piece of company_text.split('.') holding it, stripped; <<>> when
\* no single piece holds it
MatchFor(concept, company_text) ==
    LET sentences == SplitOn(company_text, ".")
        hits == {k \in 1..Len(sentences) : IsSubstring(concept, Lower(sentences[k]))}
    IN IF hits = {} THEN <<>>
       ELSE <<Strip(sentences[CHOOSE k \in hits : \A m \in hits : k <= m])>>

RECURSIVE MatchesFor(_, _)
MatchesFor(key_concepts, company_text) ==
    IF key_concepts = <<>> THEN <<>>
    ELSE (IF IsSubstring(Head(key_concepts), Lower(company_text))
          THEN MatchFor(Head(key_concepts), company_text)
          ELSE <<>>)
         \o MatchesFor(Tail(key_concepts), company_text)

\* the status branch with its else arm reporting a violation, for comparison
\* with FallbackStatus
FallbackStatusSilenceIsViolation(n_matches, n_concepts) ==
    IF 10 * n_matches >= 7 * n_concepts THEN "COMPLIANT"
    ELSE IF n_matches > 0 THEN "PARTIAL"
    ELSE "NON_COMPLIANT"

\* the status branch: len(matches) >= len(key_concepts) * 0.7, in tenths
FallbackStatus(n_matches, n_concepts) ==
    IF 10 * n_matches >= 7 * n_concepts THEN "COMPLIANT"
    ELSE IF n_matches > 0 THEN "PARTIAL"
    ELSE "NOT_ADDRESSED"

\* the assessment of one requirement (gap_description and recommendation are
\* fixed texts chosen by the same branch and are left out)
FallbackAssessment(company_text, req) ==
    LET description == Lower(req.description)
        key_concepts == _extract_key_concepts(description)
        matches == MatchesFor(key_concepts, company_text)
        status == FallbackStatus(Len(matches), Len(key_concepts))
    IN [requirement_id |-> req.requirement_id,
        status |-> status,
        evidence |-> CASE status = "COMPLIANT" -> Join(". ", Take(matches, 2))
                       [] status = "PARTIAL" -> Join(". ", matches)
                       [] OTHER -> "No evidence found in the document",
        confidence |-> FALLBACK_CONFIDENCE]

_fallback_text_analysis(company_text, requirements) ==
    [i \in 1..Len(requirements) |-> FallbackAssessment(company_text, requirements[i])]

\* requirement descriptions: two, three and four vocabulary terms; no
\* vocabulary term but three content words; words that end in a full stop; no
\* concept at all
FallbackDescriptions ==
    {"Human oversight and AUDIT of the system",
     "Transparency, review and policy",
     "Policy, procedure, control, training",
     "Providers shall record incidents promptly",
     "Keep logs. Daily.",
     "Do it now"}

FallbackRequirements ==
    {[requirement_id |-> "REQ", title |-> "T", description |-> d] :
        d \in FallbackDescriptions}

CompanyTexts ==
    {"",
     "We have Human Oversight. An audit is done yearly.",
     "Our policy covers transparency",
     "Policy and procedure give control",
     "Providers record incidents",
     "We keep logs. Daily."}

RECURSIVE SeqsUpTo(_, _)
\* the sequences over S of length at most n
SeqsUpTo(S, n) ==
    IF n = 0 THEN {<<>>}
    ELSE LET shorter == SeqsUpTo(S, n - 1)
         IN shorter \cup {Append(q, x) : q \in shorter, x \in S}

\* ---- actions

FallbackTextAnalysis ==
    /\ fb_pc = "ready"
    /\ fb_assessments' = _fallback_text_analysis(fb_company_text, fb_requirements)
    /\ fb_pc' = "done"
    /\ UNCHANGED <<fb_company_text, fb_requirements>>
    /\ UNCHANGED <<aggVars, mergeVars, adVars, qsVars, segVars, parseVars, upVars, pollVars, exVars>>

FallbackIdle ==
    /\ fb_pc = "idle"
    /\ fb_company_text = ""
    /\ fb_requirements = <<>>
    /\ fb_assessments = <<>>

FallbackStart ==
    /\ fb_pc = "ready"
    /\ fb_company_text \in CompanyTexts
    /\ fb_requirements \in SeqsUpTo(FallbackRequirements, MaxFallbackReqs)
    /\ fb_assessments = <<>>

NextFallback == FallbackTextAnalysis

(***************************************************************************)
(* Document assessment session (DocumentAssessor.assess_document)          *)
(***************************************************************************)
MaxLLMItems == 2

\* a nullable column: <<>> is NULL, <<v>> holds v
Null == <<>>

\* the organization's active requirements: two of jurisdiction "J1" and one of
\* "J2" that carries the same requirement_id text as a "J1" requirement
CatalogRows ==
    <<[id |-> 1, requirement_id |-> "R1", title |-> "Oversight",
       description |-> "Human oversight and AUDIT of the system",
       jurisdiction_id |-> "J1"],
      [id |-> 2, requirement_id |-> "R2", title |-> "Act",
       description |-> "Do it now", jurisdiction_id |-> "J1"],
      [id |-> 3, requirement_id |-> "R1", title |-> "Openness",
       description |-> "Transparency, review and policy",
       jurisdiction_id |-> "J2"]>>

Catalogs == {<<>>, SubSeq(CatalogRows, 1, 2), CatalogRows}

\* the jurisdictions with a persistent assistant: none or one of the two
AssistantSets == {{}, {"J1"}, {"J2"}}

SessionTexts ==
    {"", "We have Human Oversight. An audit is done yearly.",
     "Our policy covers transparency"}

\* what the assistant may answer per requirement: the four statuses of the
\* prompt, a status outside them, or no status key
LLMStatusPool ==
    {"COMPLIANT", "PARTIAL", "NON_COMPLIANT", "NOT_ADDRESSED", "NOT_ASSESSED", Missing}

\* the assessment_data dicts the assistant may return; confidence in
\* hundredths: 0.95 as the prompt shows it, 85 as on a 0-100 scale, or no
\* confidence key (the dict then has no such field).  The statuses vary for the known requirements, the
\* confidence for one of them.
LLMAssessmentData ==
    [requirement_id : {"R1", "R2"}, status : LLMStatusPool, confidence : {95}]
        \cup [requirement_id : {"RX"}, status : {"COMPLIANT"}, confidence : {95}]
        \cup [requirement_id : {"R1"}, status : {"COMPLIANT"}, confidence : {8500}]
        \cup [requirement_id : {"R1"}, status : {"COMPLIANT"}]

\* _group_requirements_by_jurisdiction: the keys, in order of first appearance
RECURSIVE JurisdictionOrder(_, _)
JurisdictionOrder(requirements, acc) ==
    IF requirements = <<>> THEN acc
    ELSE JurisdictionOrder(
             Tail(requirements),
             IF \E k \in 1..Len(acc) : acc[k] = Head(requirements).jurisdiction_id
             THEN acc ELSE Append(acc, Head(requirements).jurisdiction_id))

\* _group_requirements_by_jurisdiction: the list of one key
RequirementsOf(requirements, jurisdiction_id) ==
    SelectSeq(requirements, LAMBDA r : r.jurisdiction_id = jurisdiction_id)

\* dict.get(key, default) on an optional value
GetOr(v, default) == IF v = Missing THEN default ELSE v

\* _create_assessment_record: <<>> when no requirement of the list carries the
\* assessment's requirement_id, else the one record added to the session
_create_assessment_record(assessment_data, requirements) ==
    LET hits == {k \in 1..Len(requirements) :
                    requirements[k].requirement_id = assessment_data.requirement_id}
    IN IF hits = {} THEN <<>>
       ELSE LET requirement == requirements[CHOOSE k \in hits : \A m \in hits : k <= m]
            IN <<[requirement_id |-> requirement.id,
                  status |-> GetOr(assessment_data.status, "NOT_ADDRESSED"),
                  confidence_score |->
                      IF "confidence" \in DOMAIN assessment_data
                      THEN assessment_data.confidence ELSE 0]>>

RECURSIVE CreateRecords(_, _)
\* the loop "for assessment_data in assessments" of assess_document
CreateRecords(assessments, requirements) ==
    IF assessments = <<>> THEN <<>>
    ELSE _create_assessment_record(Head(assessments), requirements)
         \o CreateRecords(Tail(assessments), requirements)

CountWithStatus(assessments, status) ==
    Cardinality({k \in 1..Len(assessments) : assessments[k].status = status})

\* round(n / d) of Python 3 for n >= 0, d > 0: the nearest integer, a tie
\* going to the even neighbour
RoundedQuotient(n, d) ==
    LET q == n \div d
        r == n % d
    IN IF 2 * r < d THEN q
       ELSE IF 2 * r > d THEN q + 1
       ELSE IF q % 2 = 0 THEN q ELSE q + 1

\* round((compliant_count * 100 + partial_count * 50) / total_questions)
WeightedScoreRounded(compliant, partial, total) ==
    RoundedQuotient(compliant * 100 + partial * 50, total)

\* int((compliant * 100 + partial * 50) / total)
WeightedScore(compliant, partial, total) ==
    (compliant * 100 + partial * 50) \div total

_calculate_overall_scores(assessments) ==
    LET total == Len(assessments)
        compliant == CountWithStatus(assessments, "COMPLIANT")
        partial == CountWithStatus(assessments, "PARTIAL")
    IN IF total = 0
       THEN [total |-> 0, compliant |-> 0, partial |-> 0, non_compliant |-> 0,
             not_addressed |-> 0, score |-> 0]
       ELSE [total |-> total, compliant |-> compliant, partial |-> partial,
             non_compliant |-> CountWithStatus(assessments, "NON_COMPLIANT"),
             not_addressed |-> CountWithStatus(assessments, "NOT_ADDRESSED"),
             score |-> WeightedScore(compliant, partial, total)]

\* a new AssessmentSession row: counts default to 0, score and completed_at NULL
NewSession(session_type) ==
    [session_type |-> session_type, total_requirements |-> 0,
     compliant_count |-> 0, partial_count |-> 0, non_compliant_count |-> 0,
     not_addressed_count |-> 0, overall_score |-> Null, completed_at |-> FALSE]

EmptyDb == [sessions |-> <<>>, assessments |-> <<>>]

\* ---- actions of assess_document

\* session created and flushed, text extracted, requirements loaded and grouped
AssessBegin ==
    /\ ad_pc = "start"
    /\ ad_catalog # <<>>
    /\ ad_session' = NewSession("document_upload")
    /\ ad_todo' = JurisdictionOrder(ad_catalog, <<>>)
    /\ ad_pc' = "assessing"
    /\ UNCHANGED <<ad_company_text, ad_catalog, ad_assistants, all_assessments, ad_db>>
    /\ UNCHANGED <<aggVars, mergeVars, fbVars, qsVars, segVars, parseVars, upVars, pollVars, exVars>>

\* text extraction reports 'error', or the organization has no requirements:
\* the exception is caught, the transaction rolled back, the error re-raised
AssessBeginFails ==
    /\ ad_pc = "start"
    /\ \E file_error \in BOOLEAN : file_error \/ ad_catalog = <<>>
    /\ ad_pc' = "rolled_back"
    /\ UNCHANGED <<ad_company_text, ad_catalog, ad_assistants, ad_todo,
                   all_assessments, ad_session, ad_db>>
    /\ UNCHANGED <<aggVars, mergeVars, fbVars, qsVars, segVars, parseVars, upVars, pollVars, exVars>>

\* one iteration of the jurisdiction loop, the jurisdiction's assistant
\* answering with a non-empty list
AssessWithAssistant ==
    /\ ad_pc = "assessing"
    /\ ad_todo # <<>>
    /\ Head(ad_todo) \in ad_assistants
    /\ \E assessments \in SeqsUpTo(LLMAssessmentData, MaxLLMItems) \ {<<>>} :
          all_assessments' =
              all_assessments
                  \o CreateRecords(assessments,
                                   RequirementsOf(ad_catalog, Head(ad_todo)))
    /\ ad_todo' = Tail(ad_todo)
    /\ UNCHANGED <<ad_pc, ad_company_text, ad_catalog, ad_assistants, ad_session, ad_db>>
    /\ UNCHANGED <<aggVars, mergeVars, fbVars, qsVars, segVars, parseVars, upVars, pollVars, exVars>>

\* one iteration of the jurisdiction loop on the fallback: the jurisdiction
\* has no assistant, or its assistant returned nothing
AssessWithFallback ==
    /\ ad_pc = "assessing"
    /\ ad_todo # <<>>
    /\ LET req_list == RequirementsOf(ad_catalog, Head(ad_todo))
       IN all_assessments' =
              all_assessments
                  \o CreateRecords(_fallback_text_analysis(ad_company_text, req_list),
                                   req_list)
    /\ ad_todo' = Tail(ad_todo)
    /\ UNCHANGED <<ad_pc, ad_company_text, ad_catalog, ad_assistants, ad_session, ad_db>>
    /\ UNCHANGED <<aggVars, mergeVars, fbVars, qsVars, segVars, parseVars, upVars, pollVars, exVars>>

\* the session after "Update session with final scores"
FinalSession(session, overall_stats) ==
    [session EXCEPT !.total_requirements = overall_stats.total,
                    !.compliant_count = overall_stats.compliant,
                    !.partial_count = overall_stats.partial,
                    !.non_compliant_count = overall_stats.non_compliant,
                    !.not_addressed_count = overall_stats.not_addressed,
                    !.overall_score = <<overall_stats.score>>,
                    !.completed_at = TRUE]

\* scores calculated, session updated, transaction committed
AssessCommit ==
    /\ ad_pc = "assessing"
    /\ ad_todo = <<>>
    /\ ad_session' = FinalSession(ad_session, _calculate_overall_scores(all_assessments))
    /\ ad_db' = [sessions |-> <<ad_session'>>, assessments |-> all_assessments]
    /\ ad_pc' = "committed"
    /\ UNCHANGED <<ad_company_text, ad_catalog, ad_assistants, ad_todo, all_assessments>>
    /\ UNCHANGED <<aggVars, mergeVars, fbVars, qsVars, segVars, parseVars, upVars, pollVars, exVars>>

\* a failing run whose flushed session and added records survive, for
\* comparison with AssessRaises
AssessRaisesKeepsFlushed ==
    /\ ad_pc = "assessing"
    /\ ad_pc' = "rolled_back"
    /\ ad_db' = [sessions |-> <<ad_session>>, assessments |-> all_assessments]
    /\ UNCHANGED <<ad_company_text, ad_catalog, ad_assistants, ad_todo,
                   all_assessments, ad_session>>
    /\ UNCHANGED <<aggVars, mergeVars, fbVars, qsVars, segVars, parseVars, upVars, pollVars, exVars>>

\* a database call of the run raises: rollback, nothing of the run persists
AssessRaises ==
    /\ ad_pc = "assessing"
    /\ ad_pc' = "rolled_back"
    /\ UNCHANGED <<ad_company_text, ad_catalog, ad_assistants, ad_todo,
                   all_assessments, ad_session, ad_db>>
    /\ UNCHANGED <<aggVars, mergeVars, fbVars, qsVars, segVars, parseVars, upVars, pollVars, exVars>>

AssessIdle ==
    /\ ad_pc = "idle"
    /\ ad_company_text = ""
    /\ ad_catalog = <<>>
    /\ ad_assistants = {}
    /\ ad_todo = <<>>
    /\ all_assessments = <<>>
    /\ ad_session = NewSession("document_upload")
    /\ ad_db = EmptyDb

AssessStart ==
    /\ ad_pc = "start"
    /\ ad_company_text \in SessionTexts
    /\ ad_catalog \in Catalogs
    /\ ad_assistants \in AssistantSets
    /\ ad_todo = <<>>
    /\ all_assessments = <<>>
    /\ ad_session = NewSession("document_upload")
    /\ ad_db = EmptyDb

NextAssess ==
    \/ AssessBegin
    \/ AssessBeginFails
    \/ AssessWithAssistant
    \/ AssessWithFallback
    \/ AssessCommit
    \/ AssessRaises

(***************************************************************************)
(* Questionnaire session (FormGenerator.process_questionnaire_submission)  *)
(***************************************************************************)
MaxQuestions == 2

Digits == "0123456789"

DigitValue(c) == (CHOOSE k \in 1..Len(Digits) : SubSeq(Digits, k, k) = c) - 1

IsDigits(s) ==
    /\ s # ""
    /\ \A k \in 1..Len(s) : \E d \in 1..Len(Digits) : SubSeq(s, k, k) = SubSeq(Digits, d, d)

RECURSIVE DigitsValue(_, _)
DigitsValue(s, acc) ==
    IF s = "" THEN acc
    ELSE DigitsValue(SubSeq(s, 2, Len(s)), 10 * acc + DigitValue(SubSeq(s, 1, 1)))

\* int(response) on a decimal literal with optional surrounding whitespace:
\* <<>> stands for ValueError
ParseInt(response) ==
    LET t == Strip(response)
    IN IF IsDigits(t) THEN <<DigitsValue(t, 0)>> ELSE <<>>

\* list.index(x), 0-based
IndexOf(options, x) ==
    (CHOOSE k \in 1..Len(options) :
        /\ options[k] = x
        /\ \A m \in 1..(k - 1) : options[m] # x) - 1

Min(a, b) == IF a <= b THEN a ELSE b

positive_keywords ==
    <<"yes", "implement", "establish", "document", "policy", "procedure", "regular">>

negative_keywords == <<"no", "not", "never", "none", "lack">>

\* sum(1 for word in keywords if word in response_lower)
KeywordCount(keywords, response_lower) ==
    Cardinality({k \in 1..Len(keywords) : IsSubstring(keywords[k], response_lower)})

\* the (status, score) tuple for a score on the 0..100 scale
StatusForScore(score, compliant_from) ==
    IF score >= compliant_from THEN <<"compliant", score>>
    ELSE IF score >= 40 THEN <<"partial", score>>
    ELSE <<"non_compliant", score>>

_score_response(question, response) ==
    CASE question.type = "yes_no" ->
            IF Lower(response) \in {"yes", "true", "1"} THEN <<"compliant", 100>>
            ELSE IF question.risk_weight = "high" THEN <<"non_compliant", 0>>
            ELSE <<"partial", 25>>
      [] question.type = "multiple_choice" ->
            IF \E k \in 1..Len(question.options) : question.options[k] = response
            THEN StatusForScore(
                     Min(100, (IndexOf(question.options, response) + 1)
                                  * (100 \div Len(question.options))),
                     75)
            ELSE <<"not_addressed", 0>>
      [] question.type = "scale" ->
            IF ParseInt(response) = <<>> THEN <<"not_addressed", 0>>
            ELSE StatusForScore(ParseInt(response)[1] * 20, 80)
      [] question.type = "text" ->
            IF Len(Strip(response)) > 10
            THEN IF KeywordCount(positive_keywords, Lower(response))
                        > KeywordCount(negative_keywords, Lower(response))
                 THEN <<"partial", 60>>
                 ELSE <<"non_compliant", 20>>
            ELSE <<"not_addressed", 0>>
      [] OTHER -> <<"not_addressed", 0>>

\* the status and score the loop body assigns to one question
QuestionResult(question, user_response) ==
    IF user_response = "" THEN <<"not_addressed", 0>>
    ELSE _score_response(question, user_response)

\* the counters after the loop over the questions; an unanswered question adds
\* to not_addressed_count, an answered one only to the three other counters
RECURSIVE TallyQuestions(_, _)
TallyQuestions(questions, acc) ==
    IF questions = <<>> THEN acc
    ELSE LET q == Head(questions)
             status == QuestionResult(q.question, q.response)[1]
             counted == [acc EXCEPT !.total = @ + 1]
         IN TallyQuestions(
                Tail(questions),
                IF q.response = ""
                THEN [counted EXCEPT !.not_addressed = @ + 1]
                ELSE IF status = "compliant" THEN [counted EXCEPT !.compliant = @ + 1]
                ELSE IF status = "partial" THEN [counted EXCEPT !.partial = @ + 1]
                ELSE IF status = "non_compliant"
                     THEN [counted EXCEPT !.non_compliant = @ + 1]
                ELSE counted)

\* round((compliant_count * 100 + partial_count * 50) / total_questions)
QuestionnaireStats(questions) ==
    LET t == TallyQuestions(questions,
                 [total |-> 0, compliant |-> 0, partial |-> 0, non_compliant |-> 0,
                  not_addressed |-> 0, score |-> 0])
    IN [t EXCEPT !.score = IF t.total > 0
                           THEN WeightedScoreRounded(t.compliant, t.partial, t.total)
                           ELSE 0]

QuestionAssessments(questions) ==
    [k \in 1..Len(questions) |->
        [compliance_status |-> QuestionResult(questions[k].question, questions[k].response)[1],
         score |-> QuestionResult(questions[k].question, questions[k].response)[2],
         evidence |-> questions[k].response]]

Question(type, risk_weight, options) ==
    [type |-> type, risk_weight |-> risk_weight, options |-> options]

QuestionPool ==
    {Question("yes_no", "high", <<>>), Question("yes_no", "medium", <<>>),
     Question("multiple_choice", "medium", <<"None", "Some", "Full">>),
     Question("scale", "medium", <<>>), Question("text", "medium", <<>>),
     Question("file_upload", "medium", <<>>)}

ResponsesFor(question) ==
    CASE question.type = "yes_no" -> {"", "Yes", "no"}
      [] question.type = "multiple_choice" -> {"", "None", "Some", "Full", "Most"}
      [] question.type = "scale" -> {"", "5", "3", "1", "high"}
      [] question.type = "text" ->
            {"", "ok", "We implement a documented policy", "We do not have one"}
      [] OTHER -> {"", "report.pdf"}

AnsweredQuestions ==
    UNION {{[question |-> q, response |-> r] : r \in ResponsesFor(q)} : q \in QuestionPool}

\* ---- actions of process_questionnaire_submission

\* the whole handler on its normal path, ending in db.commit()
ProcessSubmission ==
    /\ qs_pc = "start"
    /\ qs_session' = FinalSession(qs_session, QuestionnaireStats(qs_questions))
    /\ qs_db' = [sessions |-> <<qs_session'>>,
                 assessments |-> QuestionAssessments(qs_questions)]
    /\ qs_pc' = "committed"
    /\ UNCHANGED qs_questions
    /\ UNCHANGED <<aggVars, mergeVars, fbVars, adVars, segVars, parseVars, upVars, pollVars, exVars>>

\* a statement of the handler raises: rollback, the error is re-raised
ProcessSubmissionRaises ==
    /\ qs_pc = "start"
    /\ qs_pc' = "rolled_back"
    /\ UNCHANGED <<qs_questions, qs_session, qs_db>>
    /\ UNCHANGED <<aggVars, mergeVars, fbVars, adVars, segVars, parseVars, upVars, pollVars, exVars>>

QuestionnaireIdle ==
    /\ qs_pc = "idle"
    /\ qs_questions = <<>>
    /\ qs_session = NewSession("questionnaire")
    /\ qs_db = EmptyDb

QuestionnaireStart ==
    /\ qs_pc = "start"
    /\ qs_questions \in SeqsUpTo(AnsweredQuestions, MaxQuestions)
    /\ qs_session = NewSession("questionnaire")
    /\ qs_db = EmptyDb

NextQuestionnaire ==
    \/ ProcessSubmission
    \/ ProcessSubmissionRaises

(***************************************************************************)
(* Segmenter for user documents                                            *)
(* (OpenAIService._create_intelligent_chunks_for_user_docs)                *)
(***************************************************************************)
\* text[a:b] for 0 <= a, with Python's clamping of b
Slice(text, a, b) ==
    SubSeq(text, a + 1, IF b > Len(text) THEN Len(text) ELSE b)

\* the character at 0-based offset i, "" beyond the end
CharAt(text, i) == IF i >= 0 /\ i < Len(text) THEN SubSeq(text, i + 1, i + 1) ELSE ""

IsDigit(c) == Len(c) = 1 /\ IsSubstring(c, Digits)

IsUpper(c) == c \in DOMAIN LowerTable

IsLetter(c) == Len(c) = 1 /\ (IsUpper(c) \/ IsSubstring(c, LowerAlphabet))

IsLetterOrSpace(c) == IsLetter(c) \/ IsSpace(c)

\* the least offset in from..(to - 1) that satisfies Hit, -1 if there is none
FirstOffset(from, to, Hit(_)) ==
    IF \E j \in from..(to - 1) : Hit(j)
    THEN CHOOSE j \in from..(to - 1) : Hit(j) /\ \A k \in from..(j - 1) : ~Hit(k)
    ELSE -1

\* str.find(sep, from)
Find(s, sep, from) ==
    FirstOffset(from, Len(s) - Len(sep) + 1, LAMBDA j : Slice(s, j, j + Len(sep)) = sep)

RECURSIVE SplitOnStrFrom(_, _, _, _)
SplitOnStrFrom(s, sep, from, acc) ==
    IF Find(s, sep, from) < 0 THEN Append(acc, Slice(s, from, Len(s)))
    ELSE SplitOnStrFrom(s, sep, Find(s, sep, from) + Len(sep),
                        Append(acc, Slice(s, from, Find(s, sep, from))))

\* str.split(sep) for a separator of any length
SplitOnStr(s, sep) == SplitOnStrFrom(s, sep, 0, <<>>)

\* offset just after the maximal run of characters of a class that starts at
\* offset i
RunEnd(text, i, InClass(_)) ==
    IF FirstOffset(i, Len(text), LAMBDA j : ~InClass(CharAt(text, j))) >= 0
    THEN FirstOffset(i, Len(text), LAMBDA j : ~InClass(CharAt(text, j)))
    ELSE IF i > Len(text) THEN i ELSE Len(text)

\* offset just after the maximal run of digits that starts at offset i
DigitRunEnd(text, i) == RunEnd(text, i, IsDigit)

\* offset just after the maximal run of whitespace that starts at offset i
SpaceRunEnd(text, i) == RunEnd(text, i, IsSpace)

LetterRunEnd(text, i) == RunEnd(text, i, IsLetter)

\* offset just after the maximal run of [A-Z\s] that starts at offset i
LetterOrSpaceRunEnd(text, i, ignorecase) ==
    RunEnd(text, i, LAMBDA c : IsSpace(c) \/ IsUpper(c) \/ (ignorecase /\ IsLetter(c)))

\* ^ under re.MULTILINE
IsLineStart(text, pos) == pos = 0 \/ CharAt(text, pos - 1) = "\n"

\* $ under re.MULTILINE
IsLineEnd(text, pos) == pos = Len(text) \/ CharAt(text, pos) = "\n"

\* \d+\.
MatchNumbered(text, pos) ==
    /\ DigitRunEnd(text, pos) > pos
    /\ CharAt(text, DigitRunEnd(text, pos)) = "."

\* \d+\.\d+
MatchDecimal(text, pos) ==
    /\ MatchNumbered(text, pos)
    /\ IsDigit(CharAt(text, DigitRunEnd(text, pos) + 1))

\* [A-Z][A-Z\s]+: (the class cannot hold ':', so the run is the maximal one)
MatchHeader(text, pos, ignorecase) ==
    LET c == CharAt(text, pos)
        e == LetterOrSpaceRunEnd(text, pos + 1, ignorecase)
    IN /\ IsUpper(c) \/ (ignorecase /\ IsLetter(c))
       /\ e > pos + 1
       /\ CharAt(text, e) = ":"

\* offset just after a match of [A-Z][A-Z\s]+:
HeaderEnd(text, pos, ignorecase) == LetterOrSpaceRunEnd(text, pos + 1, ignorecase) + 1

\* [A-Z][A-Z\s]+:$
MatchHeaderLine(text, pos, ignorecase) ==
    /\ MatchHeader(text, pos, ignorecase)
    /\ IsLineEnd(text, HeaderEnd(text, pos, ignorecase))

\* #{1,6}\s+
MatchMarkdown(text, pos) ==
    \E k \in 1..6 :
        /\ \A j \in 0..(k - 1) : CharAt(text, pos + j) = "#"
        /\ CharAt(text, pos + k) # ""
        /\ IsSpace(CharAt(text, pos + k))

\* word\s+\d+ for one literal word, ignoring case
MatchWordNumber(text, pos, word) ==
    /\ Lower(Slice(text, pos, pos + Len(word))) = word
    /\ SpaceRunEnd(text, pos + Len(word)) > pos + Len(word)
    /\ IsDigit(CharAt(text, SpaceRunEnd(text, pos + Len(word))))

\* (Chapter|Section|Part)\s+\d+
MatchChapter(text, pos) ==
    \E word \in {"chapter", "section", "part"} : MatchWordNumber(text, pos, word)

PatternNames == <<"numbered", "decimal", "header", "markdown", "chapter">>

\* re.search(pattern, document_text, flags) of _detect_document_patterns:
\* only the last pattern is searched with re.IGNORECASE
PatternFound(name, text) ==
    \E pos \in 0..(Len(text) - 1) :
        /\ IsLineStart(text, pos)
        /\ CASE name = "numbered" -> MatchNumbered(text, pos)
             [] name = "decimal" -> MatchDecimal(text, pos)
             [] name = "header" -> MatchHeaderLine(text, pos, FALSE)
             [] name = "markdown" -> MatchMarkdown(text, pos)
             [] name = "chapter" -> MatchChapter(text, pos)

_detect_document_patterns(document_text) ==
    SelectSeq(PatternNames, LAMBDA name : PatternFound(name, document_text))

\* offset just after the match of the named pattern at the line start pos
\* under MULTILINE | IGNORECASE, -1 without a match.  Only a header match can
\* run over a later line start, so the other patterns report pos + 1.
PatternMatchEnd(name, text, pos) ==
    CASE name = "header" ->
            IF MatchHeaderLine(text, pos, TRUE) THEN HeaderEnd(text, pos, TRUE) ELSE -1
      [] name = "numbered" -> IF MatchNumbered(text, pos) THEN pos + 1 ELSE -1
      [] name = "decimal" -> IF MatchDecimal(text, pos) THEN pos + 1 ELSE -1
      [] name = "markdown" -> IF MatchMarkdown(text, pos) THEN pos + 1 ELSE -1
      [] name = "chapter" -> IF MatchChapter(text, pos) THEN pos + 1 ELSE -1

\* the start of the leftmost match at or after offset pos, -1 without one
NextPatternMatch(name, text, pos) ==
    FirstOffset(pos, Len(text),
                LAMBDA j : IsLineStart(text, j) /\ PatternMatchEnd(name, text, j) >= 0)

RECURSIVE MatchStartsFrom(_, _, _)
\* the match.start() values of re.finditer(pattern, text, MULTILINE | IGNORECASE)
\* from offset pos on, ascending: leftmost, non-overlapping matches
MatchStartsFrom(name, text, pos) ==
    LET start == NextPatternMatch(name, text, pos)
    IN IF start < 0 THEN <<>>
       ELSE <<start>> \o MatchStartsFrom(name, text, PatternMatchEnd(name, text, start))

RECURSIVE MergeSorted(_, _)
\* two ascending lists as one
MergeSorted(a, b) ==
    IF a = <<>> THEN b
    ELSE IF b = <<>> THEN a
    ELSE IF Head(a) <= Head(b) THEN <<Head(a)>> \o MergeSorted(Tail(a), b)
    ELSE <<Head(b)>> \o MergeSorted(a, Tail(b))

RECURSIVE Boundaries(_, _)
\* the boundary offsets after boundaries.sort(key=lambda x: x[0]); an offset
\* matched by k patterns occurs k times
Boundaries(text, patterns) ==
    IF patterns = <<>> THEN <<>>
    ELSE MergeSorted(MatchStartsFrom(Head(patterns), text, 0),
                     Boundaries(text, Tail(patterns)))

\* the loop state of the chunk builders
NoChunks == [chunks |-> <<>>, current_chunk |-> <<>>, current_length |-> 0]

\* one section, paragraph or sentence offered to the chunk under construction:
\* the "if current_length + len(piece) > max_chars and current_chunk" branch
\* of the paragraph and sentence loops, closing a full chunk with suffix added
AddPiece(st, piece, max_chars, sep, suffix) ==
    IF st.current_length + Len(piece) > max_chars /\ st.current_chunk # <<>>
    THEN [chunks |-> Append(st.chunks, Join(sep, st.current_chunk) \o suffix),
          current_chunk |-> <<piece>>,
          current_length |-> Len(piece)]
    ELSE [st EXCEPT !.current_chunk = Append(@, piece),
                    !.current_length = @ + Len(piece)]

\* the same branch in _split_by_patterns, where an empty section_text is
\* never appended
AddSection(st, section_text, max_chars) ==
    IF st.current_length + Len(section_text) > max_chars /\ st.current_chunk # <<>>
    THEN [chunks |-> Append(st.chunks, Join("\n", st.current_chunk)),
          current_chunk |-> IF section_text # "" THEN <<section_text>> ELSE <<>>,
          current_length |-> Len(section_text)]
    ELSE IF section_text # ""
         THEN [st EXCEPT !.current_chunk = Append(@, section_text),
                         !.current_length = @ + Len(section_text)]
         ELSE st

RECURSIVE SectionLoop(_, _, _, _, _)
\* "for pos, marker in boundaries" and the "Add remaining text" block
SectionLoop(text, boundaries, last_pos, st, max_chars) ==
    IF boundaries # <<>>
    THEN SectionLoop(text, Tail(boundaries), Head(boundaries),
                     AddSection(st, Strip(Slice(text, last_pos, Head(boundaries))), max_chars),
                     max_chars)
    ELSE IF last_pos < Len(text)
         THEN LET remaining == Strip(Slice(text, last_pos, Len(text)))
              IN IF remaining = "" THEN st.chunks
                 ELSE IF st.current_length + Len(remaining) > max_chars
                         /\ st.current_chunk # <<>>
                      THEN st.chunks \o <<Join("\n", st.current_chunk), remaining>>
                      ELSE Append(st.chunks,
                                  Join("\n", Append(st.current_chunk, remaining)))
         ELSE IF st.current_chunk # <<>>
              THEN Append(st.chunks, Join("\n", st.current_chunk))
              ELSE st.chunks

_split_by_patterns(text, patterns, max_chars) ==
    LET boundaries == Boundaries(text, patterns)
    IN IF boundaries = <<>> THEN <<text>>
       ELSE SectionLoop(text, boundaries, 0, NoChunks, max_chars)

topic_words ==
    {"introduction", "background", "overview", "purpose", "scope", "requirements",
     "procedures", "conclusion"}

topic_labels == {"policy", "guideline", "standard", "process", "procedure"}

\* re.match of the five topic_indicators on the first 100 characters
_is_topic_boundary(text) ==
    LET text_start == Strip(IF Len(text) > 100 THEN Slice(text, 0, 100) ELSE text)
    IN \/ MatchHeader(text_start, 0, TRUE)
       \/ MatchNumbered(text_start, 0)
       \/ /\ LetterRunEnd(text_start, 0) > 0
          /\ SpaceRunEnd(text_start, LetterRunEnd(text_start, 0))
                 > LetterRunEnd(text_start, 0)
          /\ IsDigit(CharAt(text_start,
                            SpaceRunEnd(text_start, LetterRunEnd(text_start, 0))))
       \/ \E w \in topic_words : Lower(Slice(text_start, 0, Len(w))) = w
       \/ \E w \in topic_labels : Lower(Slice(text_start, 0, Len(w) + 1)) = w \o ":"

RECURSIVE TopicLoop(_, _, _)
TopicLoop(paragraphs, st, max_chars) ==
    IF paragraphs = <<>>
    THEN IF st.current_chunk # <<>>
         THEN Append(st.chunks, Join("\n\n", st.current_chunk))
         ELSE st.chunks
    ELSE LET para == Strip(Head(paragraphs))
         IN TopicLoop(
                Tail(paragraphs),
                IF para = "" THEN st
                ELSE IF /\ _is_topic_boundary(para)
                        /\ st.current_chunk # <<>>
                        /\ 2 * st.current_length > max_chars
                     THEN [chunks |-> Append(st.chunks, Join("\n\n", st.current_chunk)),
                           current_chunk |-> <<para>>,
                           current_length |-> Len(para)]
                     ELSE AddPiece(st, para, max_chars, "\n\n", ""),
                max_chars)

_split_by_topics(text, max_chars) ==
    TopicLoop(SplitOnStr(text, "\n\n"), NoChunks, max_chars)

_create_semantic_chunks(document_text, max_chars) ==
    LET patterns == _detect_document_patterns(document_text)
    IN IF patterns # <<>>
       THEN _split_by_patterns(document_text, patterns, max_chars)
       ELSE _split_by_topics(document_text, max_chars)

RECURSIVE ParagraphLoop(_, _, _)
ParagraphLoop(paragraphs, st, max_chars) ==
    IF paragraphs = <<>>
    THEN IF st.current_chunk # <<>>
         THEN Append(st.chunks, Join("\n\n", st.current_chunk))
         ELSE st.chunks
    ELSE LET para == Strip(Head(paragraphs))
         IN ParagraphLoop(Tail(paragraphs),
                          IF para = "" THEN st
                          ELSE AddPiece(st, para, max_chars, "\n\n", ""),
                          max_chars)

RECURSIVE SentenceLoop(_, _, _)
\* "Split large chunks by sentences": a closed sub-chunk gets a final '.',
\* the last one does not
SentenceLoop(sentences, st, max_chars) ==
    IF sentences = <<>>
    THEN IF st.current_chunk # <<>>
         THEN Append(st.chunks, Join(". ", st.current_chunk))
         ELSE st.chunks
    ELSE SentenceLoop(Tail(sentences),
                      AddPiece(st, Head(sentences), max_chars, ". ", "."),
                      max_chars)

\* len(chunk) > max_chars * 1.5
TooLarge(chunk, max_chars) == 2 * Len(chunk) > 3 * max_chars

RECURSIVE SplitLargeChunks(_, _)
SplitLargeChunks(chunks, max_chars) ==
    IF chunks = <<>> THEN <<>>
    ELSE (IF TooLarge(Head(chunks), max_chars)
          THEN SentenceLoop(SplitOnStr(Head(chunks), ". "), NoChunks, max_chars)
          ELSE <<Head(chunks)>>)
         \o SplitLargeChunks(Tail(chunks), max_chars)

_create_paragraph_chunks(text, max_chars) ==
    LET final_chunks ==
            SplitLargeChunks(ParagraphLoop(SplitOnStr(text, "\n\n"), NoChunks, max_chars),
                             max_chars)
    IN IF final_chunks # <<>> THEN final_chunks ELSE <<Slice(text, 0, max_chars)>>

\* max_chunk_chars is the literal 8000 in the code; it is an argument here
_create_intelligent_chunks_for_user_docs(document_text, max_chunk_chars) ==
    LET chunks == _create_semantic_chunks(document_text, max_chunk_chars)
    IN IF chunks = <<>>
          \/ \A k \in 1..Len(chunks) : TooLarge(chunks[k], max_chunk_chars)
       THEN _create_paragraph_chunks(document_text, max_chunk_chars)
       ELSE chunks

(***************************************************************************)
(* Segmenter for regulatory documents                                      *)
(* (ComplianceExtractor._create_intelligent_chunks)                        *)
(***************************************************************************)
\* section_patterns, each regular expression under a name
section_patterns(framework) ==
    CASE framework = "eu_ai_act" -> <<"article", "chapter_roman", "section">>
      [] framework = "iso_42001" -> <<"decimal", "clause">>
      [] framework = "us_ai_governance" -> <<"section", "decimal", "function">>
      [] OTHER -> <<"article", "section", "decimal">>

RomanRunEnd(text, i) == RunEnd(text, i, LAMBDA c : IsSubstring(c, "IVXivx"))

\* offset just after the match of "<word> \d+" at pos, -1 without a match
WordNumberEnd(text, pos, word) ==
    LET after == pos + Len(word) + 1
    IN IF /\ Lower(Slice(text, pos, after)) = word \o " "
          /\ IsDigit(CharAt(text, after))
       THEN DigitRunEnd(text, after) ELSE -1

\* offset just after the match of the named pattern at pos under
\* re.IGNORECASE, -1 without a match
SectionMatchEnd(name, text, pos) ==
    CASE name = "article" -> WordNumberEnd(text, pos, "article")
      [] name = "section" -> WordNumberEnd(text, pos, "section")
      [] name = "clause" -> WordNumberEnd(text, pos, "clause")
      [] name = "chapter_roman" ->
            IF /\ Lower(Slice(text, pos, pos + 8)) = "chapter "
               /\ RomanRunEnd(text, pos + 8) > pos + 8
            THEN RomanRunEnd(text, pos + 8) ELSE -1
      [] name = "decimal" ->
            IF MatchDecimal(text, pos)
            THEN DigitRunEnd(text, DigitRunEnd(text, pos) + 1) ELSE -1
      [] name = "function" ->
            IF \E w \in {"govern", "map", "measure", "manage"} :
                   Lower(Slice(text, pos, pos + Len(w))) = w
            THEN pos + Len(CHOOSE w \in {"govern", "map", "measure", "manage"} :
                               Lower(Slice(text, pos, pos + Len(w))) = w)
            ELSE -1

\* the start of the leftmost match at or after offset pos, -1 without one
NextSectionMatch(name, text, pos) ==
    FirstOffset(pos, Len(text), LAMBDA j : SectionMatchEnd(name, text, j) >= 0)

RECURSIVE SectionStartsFrom(_, _, _)
\* the match.start() values of re.finditer(pattern, text, re.IGNORECASE) from
\* offset pos on, ascending: leftmost, non-overlapping matches
SectionStartsFrom(name, text, pos) ==
    LET start == NextSectionMatch(name, text, pos)
    IN IF start < 0 THEN <<>>
       ELSE <<start>> \o SectionStartsFrom(name, text, SectionMatchEnd(name, text, start))

RECURSIVE SectionBoundaries(_, _)
\* the boundary offsets after boundaries.sort(key=lambda x: x[0])
SectionBoundaries(text, patterns) ==
    IF patterns = <<>> THEN <<>>
    ELSE MergeSorted(SectionStartsFrom(Head(patterns), text, 0),
                     SectionBoundaries(text, Tail(patterns)))

RECURSIVE FixedSlices(_, _, _)
\* [text[i:i + max_chars] for i in range(0, len(text), max_chars)]
FixedSlices(text, i, max_chars) ==
    IF i >= Len(text) THEN <<>>
    ELSE <<Slice(text, i, i + max_chars)>> \o FixedSlices(text, i + max_chars, max_chars)

RECURSIVE LaterSections(_, _, _)
\* the iterations i > 0 of the boundary loop and the "Last section" block:
\* a section of at most 100 characters between two markers is not kept
LaterSections(text, boundaries, start) ==
    IF boundaries = <<>>
    THEN IF start < Len(text) /\ Strip(Slice(text, start, Len(text))) # ""
         THEN <<Strip(Slice(text, start, Len(text)))>> ELSE <<>>
    ELSE LET chunk == Strip(Slice(text, start, Head(boundaries)))
         IN (IF chunk # "" /\ Len(chunk) > 100 THEN <<chunk>> ELSE <<>>)
            \o LaterSections(text, Tail(boundaries), Head(boundaries))

_split_by_sections(text, patterns, max_chars) ==
    LET boundaries == SectionBoundaries(text, patterns)
    IN IF boundaries = <<>> THEN FixedSlices(text, 0, max_chars)
       ELSE LET first == Strip(Slice(text, 0, Head(boundaries)))
            IN (IF Head(boundaries) > 0 /\ first # "" THEN <<first>> ELSE <<>>)
               \o LaterSections(text, Tail(boundaries), Head(boundaries))

RECURSIVE SplitParagraphsLoop(_, _, _)
SplitParagraphsLoop(paragraphs, current_chunk, max_chars) ==
    IF paragraphs = <<>>
    THEN IF Strip(current_chunk) # "" THEN <<Strip(current_chunk)>> ELSE <<>>
    ELSE IF Len(current_chunk) + Len(Head(paragraphs)) + 2 <= max_chars
         THEN SplitParagraphsLoop(Tail(paragraphs),
                                  current_chunk \o Head(paragraphs) \o "\n\n", max_chars)
         ELSE (IF Strip(current_chunk) # "" THEN <<Strip(current_chunk)>> ELSE <<>>)
              \o SplitParagraphsLoop(Tail(paragraphs), Head(paragraphs) \o "\n\n",
                                     max_chars)

_split_by_paragraphs(text, max_chars) ==
    SplitParagraphsLoop(SplitOnStr(text, "\n\n"), "", max_chars)

RECURSIVE SplitLargeSections(_, _)
SplitLargeSections(chunks, max_chunk_chars) ==
    IF chunks = <<>> THEN <<>>
    ELSE (IF Len(Head(chunks)) <= max_chunk_chars THEN <<Head(chunks)>>
          ELSE _split_by_paragraphs(Head(chunks), max_chunk_chars))
         \o SplitLargeSections(Tail(chunks), max_chunk_chars)

\* max_chunk_chars is the literal 6000 in the code; it is an argument here
_create_intelligent_chunks(document_text, framework, max_chunk_chars) ==
    SplitLargeSections(
        _split_by_sections(document_text, section_patterns(framework), max_chunk_chars),
        max_chunk_chars)

\* ---- the documents and chunk sizes the segmenters are run on
MaxPieces == 3

\* 105 characters without a sentence or paragraph break
Filler == Repeat("abcd ", 21)

DocPieces ==
    {"  ", "\n\n", ". ", "1. ", "Overview", "POLICY:\n", "Article 1 ",
     "wwwwwwwwwwwwwwww", Filler}

RECURSIVE Concat(_)
Concat(pieces) == IF pieces = <<>> THEN "" ELSE Head(pieces) \o Concat(Tail(pieces))

Documents == {Concat(pieces) : pieces \in SeqsUpTo(DocPieces, MaxPieces)}

\* 28: a 16-character paragraph is more than half of it and fits with a
\* second, 8-character paragraph
ChunkSizes == {8, 20, 28}

Frameworks == {"eu_ai_act", "us_ai_governance"}

\* OpenAIService._create_intelligent_chunks_for_user_docs on the document
CreateUserChunks ==
    /\ seg_pc = "start"
    /\ seg_chunks' = _create_intelligent_chunks_for_user_docs(seg_text, seg_max_chars)
    /\ seg_pc' = "user_chunks"
    /\ UNCHANGED <<seg_text, seg_max_chars, seg_framework>>
    /\ UNCHANGED <<aggVars, mergeVars, fbVars, adVars, qsVars, parseVars, upVars, pollVars, exVars>>

\* ComplianceExtractor._create_intelligent_chunks on the document
CreateRegulatoryChunks ==
    /\ seg_pc = "start"
    /\ seg_chunks' = _create_intelligent_chunks(seg_text, seg_framework, seg_max_chars)
    /\ seg_pc' = "regulatory_chunks"
    /\ UNCHANGED <<seg_text, seg_max_chars, seg_framework>>
    /\ UNCHANGED <<aggVars, mergeVars, fbVars, adVars, qsVars, parseVars, upVars, pollVars, exVars>>

SegmenterIdle ==
    /\ seg_pc = "idle"
    /\ seg_text = ""
    /\ seg_max_chars = 0
    /\ seg_framework = ""
    /\ seg_chunks = <<>>

SegmenterStart ==
    /\ seg_pc = "start"
    /\ seg_text \in Documents
    /\ seg_max_chars \in ChunkSizes
    /\ seg_framework \in Frameworks
    /\ seg_chunks = <<>>

NextSegmenter ==
    \/ CreateUserChunks
    \/ CreateRegulatoryChunks

(***************************************************************************)
(* Parse step of a raw LLM response                                        *)
(* (ComplianceExtractor._parse_extraction_result,                          *)
(*  AssistantManager._parse_requirements_response)                         *)
(***************************************************************************)
\* str.rfind(sep)
RFind(s, sep) ==
    IF Find(s, sep, 0) < 0 THEN -1
    ELSE CHOOSE j \in 0..(Len(s) - Len(sep)) :
             /\ Slice(s, j, j + Len(sep)) = sep
             /\ \A k \in (j + 1)..(Len(s) - Len(sep)) : Slice(s, k, k + Len(sep)) # sep

ParsedRequirement ==
    [requirement_id |-> "Art_5", title |-> "Prohibit X", description |-> "No X."]

RequirementJson ==
    "{\"requirement_id\": \"Art_5\", \"title\": \"Prohibit X\", \"description\": \"No X.\"}"

\* json.loads as a table: the texts that are JSON objects, each with the keys
\* of the object and the value under "requirements"; every other text raises
JsonObjects ==
    {[text |-> "{\"requirements\": [" \o RequirementJson \o "]}",
      keys |-> {"requirements"}, requirements |-> <<ParsedRequirement>>],
     [text |-> "{\"requirements\": []}",
      keys |-> {"requirements"}, requirements |-> <<>>],
     [text |-> "{\"items\": [" \o RequirementJson \o "]}",
      keys |-> {"items"}, requirements |-> <<>>],
     [text |-> "{}", keys |-> {}, requirements |-> <<>>]}

JsonValid(json_str) == \E o \in JsonObjects : o.text = json_str

JsonLoads(json_str) == CHOOSE o \in JsonObjects : o.text = json_str

\* ComplianceExtractor._parse_extraction_result
_parse_extraction_result(result, framework) ==
    LET start_idx == Find(result, "{", 0)
        end_idx == RFind(result, "}")
        json_str == Slice(result, start_idx, end_idx + 1)
    IN IF /\ start_idx # -1
          /\ end_idx # -1
          /\ JsonValid(json_str)
          /\ "requirements" \in JsonLoads(json_str).keys
       THEN JsonLoads(json_str).requirements
       ELSE _get_mock_requirements(framework)

\* AssistantManager._parse_requirements_response: end_idx is rfind + 1, so
\* the test "end_idx != -1" always passes
_parse_requirements_response(response) ==
    LET start_idx == Find(response, "{", 0)
        end_idx == RFind(response, "}") + 1
        json_str == Slice(response, start_idx, end_idx)
    IN IF /\ start_idx # -1
          /\ end_idx # -1
          /\ JsonValid(json_str)
          /\ "requirements" \in JsonLoads(json_str).keys
       THEN JsonLoads(json_str).requirements
       ELSE <<>>

\* raw responses with a usable object
UsableResponses ==
    {"{\"requirements\": [" \o RequirementJson \o "]}",
     "Here you go: {\"requirements\": []} Done.",
     "Result:\n{\"requirements\": [" \o RequirementJson \o "]}\nEnd."}

\* raw responses without a parsable JSON object
ResponsesWithoutJson ==
    {"", "I cannot help with that.", "} {",
     "{\"requirements\": [" \o RequirementJson,
     "{\"requirements\": [" \o RequirementJson \o ",]}"}

\* raw responses whose object has no "requirements" key
ResponsesWithoutKey == {"{}", "Result: {\"items\": [" \o RequirementJson \o "]}"}

RawResponses == UsableResponses \cup ResponsesWithoutJson \cup ResponsesWithoutKey

AllFrameworks == {"eu_ai_act", "iso_42001", "us_ai_governance", "nist_rmf"}

\* the parse step of _extract_with_chunking on one chunk's response
ParseExtractionResult ==
    /\ parse_pc = "start"
    /\ chunk_requirements' = _parse_extraction_result(parse_result, parse_framework)
    /\ parse_pc' = "extractor_parsed"
    /\ UNCHANGED <<parse_result, parse_framework>>
    /\ UNCHANGED <<aggVars, mergeVars, fbVars, adVars, qsVars, segVars, upVars, pollVars, exVars>>

\* the parse step of extract_all_requirements on the assistant's response
ParseRequirementsResponse ==
    /\ parse_pc = "start"
    /\ chunk_requirements' = _parse_requirements_response(parse_result)
    /\ parse_pc' = "assistant_parsed"
    /\ UNCHANGED <<parse_result, parse_framework>>
    /\ UNCHANGED <<aggVars, mergeVars, fbVars, adVars, qsVars, segVars, upVars, pollVars, exVars>>

ParseIdle ==
    /\ parse_pc = "idle"
    /\ parse_result = ""
    /\ parse_framework = ""
    /\ chunk_requirements = <<>>

ParseStart ==
    /\ parse_pc = "start"
    /\ parse_result \in RawResponses
    /\ parse_framework \in AllFrameworks
    /\ chunk_requirements = <<>>

NextParse ==
    \/ ParseExtractionResult
    \/ ParseRequirementsResponse

(***************************************************************************)
(* Regulatory-document uploads: api/admin.py process_compliance_document   *)
(* (a background task with its own database session) and api/documents.py  *)
(* extract_compliance_requirements_from_admin_document.  Two uploads to    *)
(* the same jurisdiction run as concurrent tasks; each step below is the   *)
(* code between two awaits that reach the database or the provider.  The   *)
(* table is the one models/compliance.py declares: compliance_requirements *)
(* has no uniqueness constraint on (jurisdiction_id, requirement_id).      *)
(***************************************************************************)
MaxUploadReqs == 2

Uploads == {1, 2}

UploadReqIds == {"Article_5", "Article_6"}

\* what one extraction yields: requirement ids, distinct within the list
ExtractedLists ==
    {ids \in SeqsUpTo(UploadReqIds, MaxUploadReqs) :
        \A a, b \in 1..Len(ids) : ids[a] = ids[b] => a = b}

\* the "criticality" of an extracted requirement: a value of the closed set,
\* another string, or no such key
CriticalityPool == {"HIGH", "urgent", Missing}

\* the req_data dicts of one extraction, as far as the tasks read them
UploadRequirementLists ==
    UNION {{[k \in 1..Len(ids) |-> [requirement_id |-> ids[k], criticality |-> c[k]]] :
               c \in [1..Len(ids) -> CriticalityPool]} : ids \in ExtractedLists}

\* the ComplianceDocument row as created by the upload endpoint
\* (processing_status='pending', is_processed default False) and the task's
\* local state
NewUpload(path) ==
    [pc |-> "queued", path |-> path, requirements |-> <<>>, i |-> 1,
     pending |-> <<>>, processing_status |-> "pending", is_processed |-> FALSE,
     run_status |-> "queued", assistant_id |-> FALSE, seen_assistant |-> 0]

\* ComplianceRequirement(...) of process_compliance_document
AdminRow(u, req_data) ==
    [requirement_id |-> req_data.requirement_id,
     criticality |-> req_data.criticality,
     source_document_id |-> u]

\* ComplianceRequirement(...) of extract_compliance_requirements_from_admin_document
DocRow(req_data) ==
    [requirement_id |-> req_data.requirement_id,
     criticality |-> IF req_data.criticality = Missing THEN "medium"
                     ELSE req_data.criticality,
     source_document_id |-> 0]

AdminRows(u, requirements) ==
    [k \in 1..Len(requirements) |-> AdminRow(u, requirements[k])]

\* process_compliance_document: processing_status = 'processing'; commit
AdminBegin(u) ==
    /\ uploads[u].pc = "queued" /\ uploads[u].path = "admin"
    /\ uploads' = [uploads EXCEPT ![u].pc = "extracting",
                                  ![u].processing_status = "processing"]
    /\ UNCHANGED <<catalog, jurisdiction_assistant, provider_assistants>>
    /\ UNCHANGED <<aggVars, mergeVars, fbVars, adVars, qsVars, segVars, parseVars, pollVars, exVars>>

\* inside extract_requirements, a turn of the "while True" of
\* extract_all_requirements: the run is neither 'completed' nor 'failed',
\* sleep and retrieve again
AdminExtractWaits(u) ==
    /\ uploads[u].pc = "extracting"
    /\ \E status \in {"queued", "in_progress"} :
        /\ status # uploads[u].run_status
        /\ uploads' = [uploads EXCEPT ![u].run_status = status]
    /\ UNCHANGED <<catalog, jurisdiction_assistant, provider_assistants>>
    /\ UNCHANGED <<aggVars, mergeVars, fbVars, adVars, qsVars, segVars, parseVars, pollVars, exVars>>

\* await extractor.extract_requirements(..., keep_assistant=True) returns: it
\* catches its own exceptions, so the task gets a list, which may be empty,
\* and the metadata, with an assistant_id when an assistant was created (it
\* is kept also when the requirements come from the chunking fallback)
AdminExtract(u) ==
    /\ uploads[u].pc = "extracting"
    /\ \E requirements \in UploadRequirementLists, created \in BOOLEAN :
        /\ uploads' = [uploads EXCEPT ![u].pc = IF created THEN "linking" ELSE "saving",
                                      ![u].requirements = requirements,
                                      ![u].assistant_id = created]
        /\ provider_assistants' = IF created THEN provider_assistants \cup {u}
                                  ELSE provider_assistants
    /\ UNCHANGED <<catalog, jurisdiction_assistant>>
    /\ UNCHANGED <<aggVars, mergeVars, fbVars, adVars, qsVars, segVars, parseVars, pollVars, exVars>>

\* "if extraction_metadata.get('assistant_id')": the select of the
\* jurisdiction row
AdminReadJurisdiction(u) ==
    /\ uploads[u].pc = "linking"
    /\ uploads' = [uploads EXCEPT ![u].pc = "linked",
                                  ![u].seen_assistant = jurisdiction_assistant]
    /\ UNCHANGED <<catalog, jurisdiction_assistant, provider_assistants>>
    /\ UNCHANGED <<aggVars, mergeVars, fbVars, adVars, qsVars, segVars, parseVars, pollVars, exVars>>

\* "if not jurisdiction.assistant_id: jurisdiction.assistant_id = ..." else
\* only a log line; commit
AdminLinkAssistant(u) ==
    /\ uploads[u].pc = "linked"
    /\ jurisdiction_assistant' = IF uploads[u].seen_assistant = 0 THEN u
                                 ELSE jurisdiction_assistant
    /\ uploads' = [uploads EXCEPT ![u].pc = "saving"]
    /\ UNCHANGED <<catalog, provider_assistants>>
    /\ UNCHANGED <<aggVars, mergeVars, fbVars, adVars, qsVars, segVars, parseVars, pollVars, exVars>>

\* "for req_data in requirements: db.add(ComplianceRequirement(...))" with no
\* look-up of existing rows and the criticality as extracted, then status
\* 'completed', is_processed and commit
AdminSave(u) ==
    /\ uploads[u].pc = "saving"
    /\ \A k \in 1..Len(uploads[u].requirements) :
           uploads[u].requirements[k].criticality # Missing
    /\ catalog' = catalog \o AdminRows(u, uploads[u].requirements)
    /\ uploads' = [uploads EXCEPT ![u].pc = "done",
                                  ![u].processing_status = "completed",
                                  ![u].is_processed = TRUE]
    /\ UNCHANGED <<jurisdiction_assistant, provider_assistants>>
    /\ UNCHANGED <<aggVars, mergeVars, fbVars, adVars, qsVars, segVars, parseVars, pollVars, exVars>>

\* req_data["criticality"] raises KeyError at the first req_data without the
\* key, after the records before it were added: the except block sets
\* 'failed' and commits without a rollback, which also writes those records
AdminFails(u) ==
    /\ uploads[u].pc = "saving"
    /\ \E k \in 1..Len(uploads[u].requirements) :
        /\ uploads[u].requirements[k].criticality = Missing
        /\ \A m \in 1..(k - 1) : uploads[u].requirements[m].criticality # Missing
        /\ catalog' = catalog \o AdminRows(u, SubSeq(uploads[u].requirements, 1, k - 1))
    /\ uploads' = [uploads EXCEPT ![u].pc = "done",
                                  ![u].processing_status = "failed"]
    /\ UNCHANGED <<jurisdiction_assistant, provider_assistants>>
    /\ UNCHANGED <<aggVars, mergeVars, fbVars, adVars, qsVars, segVars, parseVars, pollVars, exVars>>

\* extract_compliance_requirements_from_admin_document up to the loop:
\* "if not extracted_requirements: logger.warning(...); return"
DocExtract(u) ==
    /\ uploads[u].pc = "queued" /\ uploads[u].path = "documents"
    /\ \E requirements \in UploadRequirementLists :
           uploads' = [uploads EXCEPT
                          ![u].pc = IF requirements = <<>> THEN "done" ELSE "storing",
                          ![u].requirements = requirements]
    /\ UNCHANGED <<catalog, jurisdiction_assistant, provider_assistants>>
    /\ UNCHANGED <<aggVars, mergeVars, fbVars, adVars, qsVars, segVars, parseVars, pollVars, exVars>>

\* one iteration of the loop: the select sees the committed rows and (the
\* session flushes before a query) the task's own pending rows; when no row
\* is found the record is constructed and added, or the constructor raises
\* and the per-requirement except skips it
DocCheckAndAdd(u) ==
    /\ uploads[u].pc = "storing"
    /\ uploads[u].i <= Len(uploads[u].requirements)
    /\ LET req_data == uploads[u].requirements[uploads[u].i]
           existing_req ==
               \/ \E k \in 1..Len(catalog) :
                      catalog[k].requirement_id = req_data.requirement_id
               \/ \E k \in 1..Len(uploads[u].pending) :
                      uploads[u].pending[k].requirement_id = req_data.requirement_id
       IN \E constructed \in BOOLEAN :
              uploads' = [uploads EXCEPT
                  ![u].i = @ + 1,
                  ![u].pending = IF ~existing_req /\ constructed
                                 THEN Append(@, DocRow(req_data)) ELSE @]
    /\ UNCHANGED <<catalog, jurisdiction_assistant, provider_assistants>>
    /\ UNCHANGED <<aggVars, mergeVars, fbVars, adVars, qsVars, segVars, parseVars, pollVars, exVars>>

\* "await db.commit()" after the loop
DocCommit(u) ==
    /\ uploads[u].pc = "storing"
    /\ uploads[u].i > Len(uploads[u].requirements)
    /\ catalog' = catalog \o uploads[u].pending
    /\ uploads' = [uploads EXCEPT ![u].pc = "done", ![u].pending = <<>>]
    /\ UNCHANGED <<jurisdiction_assistant, provider_assistants>>
    /\ UNCHANGED <<aggVars, mergeVars, fbVars, adVars, qsVars, segVars, parseVars, pollVars, exVars>>

\* the outer except: "await db.rollback()"
DocFails(u) ==
    /\ uploads[u].pc = "storing"
    /\ uploads' = [uploads EXCEPT ![u].pc = "done", ![u].pending = <<>>]
    /\ UNCHANGED <<catalog, jurisdiction_assistant, provider_assistants>>
    /\ UNCHANGED <<aggVars, mergeVars, fbVars, adVars, qsVars, segVars, parseVars, pollVars, exVars>>

UploadIdle ==
    /\ uploads = [u \in Uploads |-> NewUpload("none")]
    /\ catalog = <<>>
    /\ jurisdiction_assistant = 0
    /\ provider_assistants = {}

UploadStart ==
    /\ uploads \in {[u \in Uploads |-> NewUpload(path[u])] :
                        path \in [Uploads -> {"admin", "documents"}]}
    /\ catalog = <<>>
    /\ jurisdiction_assistant = 0
    /\ provider_assistants = {}

\* the steps of one upload task
UploadStep(u) ==
    \/ AdminBegin(u)
    \/ AdminExtractWaits(u)
    \/ AdminExtract(u)
    \/ AdminReadJurisdiction(u)
    \/ AdminLinkAssistant(u)
    \/ AdminSave(u)
    \/ AdminFails(u)
    \/ DocExtract(u)
    \/ DocCheckAndAdd(u)
    \/ DocCommit(u)
    \/ DocFails(u)

NextUpload == \E u \in Uploads : UploadStep(u)

(***************************************************************************)
(* Waiting for an assistant run: the poll loops of                         *)
(* AssistantManager.extract_all_requirements,                              *)
(* AssistantManager.assess_document_against_requirements and               *)
(* FormGenerator._generate_with_assistant_api.  The provider answers each  *)
(* retrieve with any run status; time advances by the sleep of each turn   *)
(* and is counted up to MaxElapsed.                                        *)
(***************************************************************************)
POLL_INTERVAL == 2

TIMEOUT == 60

MaxElapsed == 70

RunStatuses == {"queued", "in_progress", "requires_action", "cancelled",
                "expired", "completed", "failed"}

ManagerFunctions == {"extract_all_requirements", "assess_document_against_requirements"}

\* await asyncio.sleep(2)
AfterSleep(elapsed) ==
    IF elapsed + POLL_INTERVAL > MaxElapsed THEN MaxElapsed ELSE elapsed + POLL_INTERVAL

\* AssistantManager, one turn of "while True": retrieve the run; 'completed'
\* leaves the loop and the parsed response is returned, 'failed' raises and
\* the except returns [], any other status goes on to the sleep
ManagerRetrieve ==
    /\ poll_pc = "waiting" /\ poll_fn \in ManagerFunctions
    /\ \E status \in RunStatuses :
        /\ run_status' = status
        /\ poll_pc' = IF status \in {"completed", "failed"} THEN "returned" ELSE "sleeping"
        /\ poll_result' = IF status = "completed" THEN "parsed"
                          ELSE IF status = "failed" THEN "empty" ELSE poll_result
    /\ UNCHANGED <<poll_fn, poll_elapsed>>
    /\ UNCHANGED <<aggVars, mergeVars, fbVars, adVars, qsVars, segVars, parseVars, upVars, exVars>>

\* the retrieve call itself raises: "except Exception: return []"
ManagerRetrieveRaises ==
    /\ poll_pc = "waiting" /\ poll_fn \in ManagerFunctions
    /\ poll_pc' = "returned"
    /\ poll_result' = "empty"
    /\ UNCHANGED <<poll_fn, run_status, poll_elapsed>>
    /\ UNCHANGED <<aggVars, mergeVars, fbVars, adVars, qsVars, segVars, parseVars, upVars, exVars>>

\* AssistantManager: "await asyncio.sleep(2)" and back to the top of the loop
ManagerSleep ==
    /\ poll_pc = "sleeping" /\ poll_fn \in ManagerFunctions
    /\ poll_elapsed' = AfterSleep(poll_elapsed)
    /\ poll_pc' = "waiting"
    /\ UNCHANGED <<poll_fn, run_status, poll_result>>
    /\ UNCHANGED <<aggVars, mergeVars, fbVars, adVars, qsVars, segVars, parseVars, upVars, exVars>>

\* FormGenerator: the test of "while run.status in ['queued', 'in_progress']"
\* with the timeout test of the body, and the status test after the loop;
\* every exception ends in the template questionnaire
FormCheck ==
    /\ poll_pc = "waiting" /\ poll_fn = "_generate_with_assistant_api"
    /\ IF run_status \in {"queued", "in_progress"}
       THEN IF poll_elapsed > TIMEOUT
            THEN poll_pc' = "returned" /\ poll_result' = "templates"
            ELSE poll_pc' = "sleeping" /\ UNCHANGED poll_result
       ELSE /\ poll_pc' = "returned"
            /\ poll_result' = IF run_status = "completed" THEN "parsed" ELSE "templates"
    /\ UNCHANGED <<poll_fn, run_status, poll_elapsed>>
    /\ UNCHANGED <<aggVars, mergeVars, fbVars, adVars, qsVars, segVars, parseVars, upVars, exVars>>

\* FormGenerator: "await asyncio.sleep(2)" and the retrieve that follows
FormSleepRetrieve ==
    /\ poll_pc = "sleeping" /\ poll_fn = "_generate_with_assistant_api"
    /\ poll_elapsed' = AfterSleep(poll_elapsed)
    /\ \E status \in RunStatuses : run_status' = status
    /\ poll_pc' = "waiting"
    /\ UNCHANGED <<poll_fn, poll_result>>
    /\ UNCHANGED <<aggVars, mergeVars, fbVars, adVars, qsVars, segVars, parseVars, upVars, exVars>>

PollIdle ==
    /\ poll_pc = "idle"
    /\ poll_fn = ""
    /\ run_status = ""
    /\ poll_elapsed = 0
    /\ poll_result = "none"

\* the run was created: runs.create returns it with some status
PollStart ==
    /\ poll_pc = "waiting"
    /\ poll_fn \in ManagerFunctions \cup {"_generate_with_assistant_api"}
    /\ run_status \in RunStatuses
    /\ poll_elapsed = 0
    /\ poll_result = "none"

NextPoll ==
    \/ ManagerRetrieve
    \/ ManagerRetrieveRaises
    \/ ManagerSleep
    \/ FormCheck
    \/ FormSleepRetrieve

(***************************************************************************)
(* ComplianceExtractor.extract_requirements: the choice of the extraction  *)
(* method, the assistant created for the document and its clean-up.        *)
(***************************************************************************)
MaxCalls == 2

ProviderResources == <<"file", "vector_store", "assistant">>

\* a requirement as the LLM paths return it
ExtractedRecord(id) == [requirement_id |-> id, title |-> id, description |-> ""]

ExtractedRecords(ids) == [k \in 1..Len(ids) |-> ExtractedRecord(ids[k])]

\* "return requirements, extraction_metadata"
Returned(requirements, metadata) ==
    [requirements |-> requirements, metadata |-> metadata]

NewMetadata == [method |-> "none", assistant_id |-> FALSE]

\* "if not self.client": the mock requirements, method 'mock', no call
ExtractMock ==
    /\ ex_pc = "start" /\ ~ex_args.client
    /\ LET metadata == [ex_metadata EXCEPT !.method = "mock"]
           requirements == _get_mock_requirements(ex_args.framework)
       IN /\ ex_metadata' = metadata
          /\ ex_requirements' = requirements
          /\ ex_results' = Append(ex_results, Returned(requirements, metadata))
    /\ ex_pc' = "done"
    /\ UNCHANGED <<ex_args, ex_calls, ex_provider>>
    /\ UNCHANGED <<aggVars, mergeVars, fbVars, adVars, qsVars, segVars, parseVars, upVars, pollVars>>

\* create_compliance_assistant: files.create, vector_stores.create and
\* assistants.create in this order; the call number k + 1 raises (k = 3: none
\* does), the exception reaches the except of extract_requirements, which
\* returns the mock requirements with method 'mock_fallback'
ExtractCreateAssistant ==
    /\ ex_pc = "start" /\ ex_args.client /\ ex_args.use_assistant_api
    /\ \E k \in 0..3 :
        /\ ex_provider' = ex_provider \cup {ProviderResources[n] : n \in 1..k}
        /\ ex_calls' = ex_calls + (IF k = 3 THEN 3 ELSE k + 1)
        /\ IF k = 3
           THEN /\ ex_metadata' = [method |-> "assistant_api", assistant_id |-> TRUE]
                /\ ex_pc' = "extracting"
                /\ UNCHANGED <<ex_requirements, ex_results>>
           ELSE LET metadata == [ex_metadata EXCEPT !.method = "mock_fallback"]
                    requirements == _get_mock_requirements(ex_args.framework)
                IN /\ ex_metadata' = metadata
                   /\ ex_requirements' = requirements
                   /\ ex_results' = Append(ex_results, Returned(requirements, metadata))
                   /\ ex_pc' = "done"
    /\ UNCHANGED ex_args
    /\ UNCHANGED <<aggVars, mergeVars, fbVars, adVars, qsVars, segVars, parseVars, upVars, pollVars>>

\* assistant_manager.extract_all_requirements: a list, [] on every failure
ExtractWithAssistant ==
    /\ ex_pc = "extracting"
    /\ \E ids \in ExtractedLists : ex_requirements' = ExtractedRecords(ids)
    /\ ex_calls' = ex_calls + 1
    /\ ex_pc' = IF ex_args.keep_assistant THEN "after" ELSE "cleanup"
    /\ UNCHANGED <<ex_args, ex_provider, ex_metadata, ex_results>>
    /\ UNCHANGED <<aggVars, mergeVars, fbVars, adVars, qsVars, segVars, parseVars, upVars, pollVars>>

\* "if not keep_assistant": cleanup_assistant deletes the assistant, the
\* vector store and the file in this order and swallows an exception of a
\* delete (k deletions succeed); the ids are then cleared from the metadata
ExtractCleanup ==
    /\ ex_pc = "cleanup"
    /\ \E k \in 0..3 :
        /\ ex_provider' = ex_provider \ {ProviderResources[4 - n] : n \in 1..k}
        /\ ex_calls' = ex_calls + (IF k = 3 THEN 3 ELSE k + 1)
    /\ ex_metadata' = [ex_metadata EXCEPT !.assistant_id = FALSE]
    /\ ex_pc' = "after"
    /\ UNCHANGED <<ex_args, ex_requirements, ex_results>>
    /\ UNCHANGED <<aggVars, mergeVars, fbVars, adVars, qsVars, segVars, parseVars, upVars, pollVars>>

\* "if requirements: return ..." else "use_assistant_api = False"
ExtractAfterAssistant ==
    /\ ex_pc = "after"
    /\ IF ex_requirements # <<>>
       THEN /\ ex_results' = Append(ex_results, Returned(ex_requirements, ex_metadata))
            /\ ex_pc' = "done"
       ELSE /\ ex_pc' = "chunking"
            /\ UNCHANGED ex_results
    /\ UNCHANGED <<ex_args, ex_calls, ex_provider, ex_metadata, ex_requirements>>
    /\ UNCHANGED <<aggVars, mergeVars, fbVars, adVars, qsVars, segVars, parseVars, upVars, pollVars>>

\* "if not use_assistant_api": the text is extracted and _extract_with_chunking
\* gives the result (one LLM call per chunk, counted as one here)
ExtractByChunking ==
    /\ \/ ex_pc = "chunking"
       \/ ex_pc = "start" /\ ex_args.client /\ ~ex_args.use_assistant_api
    /\ \E ids \in ExtractedLists :
        LET metadata == [ex_metadata EXCEPT !.method = "chunking"]
        IN /\ ex_metadata' = metadata
           /\ ex_requirements' = ExtractedRecords(ids)
           /\ ex_results' = Append(ex_results, Returned(ExtractedRecords(ids), metadata))
    /\ ex_calls' = ex_calls + 1
    /\ ex_pc' = "done"
    /\ UNCHANGED <<ex_args, ex_provider>>
    /\ UNCHANGED <<aggVars, mergeVars, fbVars, adVars, qsVars, segVars, parseVars, upVars, pollVars>>

\* an exception in the chunking branch: the except returns the mock
\* requirements with method 'mock_fallback'
ExtractByChunkingRaises ==
    /\ \/ ex_pc = "chunking"
       \/ ex_pc = "start" /\ ex_args.client /\ ~ex_args.use_assistant_api
    /\ LET metadata == [ex_metadata EXCEPT !.method = "mock_fallback"]
           requirements == _get_mock_requirements(ex_args.framework)
       IN /\ ex_metadata' = metadata
          /\ ex_requirements' = requirements
          /\ ex_results' = Append(ex_results, Returned(requirements, metadata))
    /\ ex_pc' = "done"
    /\ UNCHANGED <<ex_args, ex_calls, ex_provider>>
    /\ UNCHANGED <<aggVars, mergeVars, fbVars, adVars, qsVars, segVars, parseVars, upVars, pollVars>>

\* the next call of extract_requirements, with the same arguments
ExtractAgain ==
    /\ ex_pc = "done"
    /\ Len(ex_results) < MaxCalls
    /\ ex_pc' = "start"
    /\ ex_calls' = 0
    /\ ex_metadata' = NewMetadata
    /\ ex_requirements' = <<>>
    /\ UNCHANGED <<ex_args, ex_provider, ex_results>>
    /\ UNCHANGED <<aggVars, mergeVars, fbVars, adVars, qsVars, segVars, parseVars, upVars, pollVars>>

ExtractIdle ==
    /\ ex_pc = "idle"
    /\ ex_args = [client |-> FALSE, framework |-> "", use_assistant_api |-> FALSE,
                  keep_assistant |-> FALSE]
    /\ ex_calls = 0
    /\ ex_provider = {}
    /\ ex_metadata = NewMetadata
    /\ ex_requirements = <<>>
    /\ ex_results = <<>>

ExtractStart ==
    /\ ex_pc = "start"
    /\ ex_args \in [client : BOOLEAN, framework : AllFrameworks,
                    use_assistant_api : BOOLEAN, keep_assistant : BOOLEAN]
    /\ ex_calls = 0
    /\ ex_provider = {}
    /\ ex_metadata = NewMetadata
    /\ ex_requirements = <<>>
    /\ ex_results = <<>>

NextExtract ==
    \/ ExtractMock
    \/ ExtractCreateAssistant
    \/ ExtractWithAssistant
    \/ ExtractCleanup
    \/ ExtractAfterAssistant
    \/ ExtractByChunking
    \/ ExtractByChunkingRaises
    \/ ExtractAgain

(***************************************************************************)
(* Specifications                                                          *)
(***************************************************************************)
InitAggregate == AggStart /\ MergeIdle /\ FallbackIdle /\ AssessIdle /\ QuestionnaireIdle
    /\ SegmenterIdle /\ ParseIdle /\ UploadIdle /\ PollIdle /\ ExtractIdle

InitFallback == AggIdle /\ MergeIdle /\ FallbackStart /\ AssessIdle /\ QuestionnaireIdle
    /\ SegmenterIdle /\ ParseIdle /\ UploadIdle /\ PollIdle /\ ExtractIdle

SpecFallback == InitFallback /\ [][NextFallback]_vars

SpecAggregate == InitAggregate /\ [][NextAggregate]_vars

InitMerge == AggIdle /\ MergeStart /\ FallbackIdle /\ AssessIdle /\ QuestionnaireIdle
    /\ SegmenterIdle /\ ParseIdle /\ UploadIdle /\ PollIdle /\ ExtractIdle

\* one assessment session, of either kind
InitSession ==
    /\ AggIdle /\ MergeIdle /\ FallbackIdle
    /\ \/ AssessStart /\ QuestionnaireIdle
       \/ AssessIdle /\ QuestionnaireStart
    /\ SegmenterIdle /\ ParseIdle /\ UploadIdle /\ PollIdle /\ ExtractIdle

NextSession == NextAssess \/ NextQuestionnaire

SpecSession == InitSession /\ [][NextSession]_vars

SpecMerge == InitMerge /\ [][NextMerge]_vars

InitSegmenter ==
    /\ AggIdle /\ MergeIdle /\ FallbackIdle /\ AssessIdle /\ QuestionnaireIdle
    /\ SegmenterStart /\ ParseIdle /\ UploadIdle /\ PollIdle /\ ExtractIdle

SpecSegmenter == InitSegmenter /\ [][NextSegmenter]_vars

InitParse ==
    /\ AggIdle /\ MergeIdle /\ FallbackIdle /\ AssessIdle /\ QuestionnaireIdle
    /\ SegmenterIdle /\ ParseStart /\ UploadIdle /\ PollIdle /\ ExtractIdle

SpecParse == InitParse /\ [][NextParse]_vars

InitUpload ==
    /\ AggIdle /\ MergeIdle /\ FallbackIdle /\ AssessIdle /\ QuestionnaireIdle
    /\ SegmenterIdle /\ ParseIdle /\ UploadStart /\ PollIdle /\ ExtractIdle

SpecUpload == InitUpload /\ [][NextUpload]_vars

\* the event loop keeps running each background task
SpecUploadLive ==
    InitUpload /\ [][NextUpload]_vars /\ \A u \in Uploads : WF_vars(UploadStep(u))

InitPoll ==
    /\ AggIdle /\ MergeIdle /\ FallbackIdle /\ AssessIdle /\ QuestionnaireIdle
    /\ SegmenterIdle /\ ParseIdle /\ UploadIdle /\ PollStart /\ ExtractIdle

\* the event loop keeps running the waiting coroutine
SpecPollLive == InitPoll /\ [][NextPoll]_vars /\ WF_vars(NextPoll)

InitExtract ==
    /\ AggIdle /\ MergeIdle /\ FallbackIdle /\ AssessIdle /\ QuestionnaireIdle
    /\ SegmenterIdle /\ ParseIdle /\ UploadIdle /\ PollIdle /\ ExtractStart

SpecExtract == InitExtract /\ [][NextExtract]_vars

(***************************************************************************)
(* Claims about the requirement aggregator                                 *)
(***************************************************************************)
SeqToSet(seq) == {seq[i] : i \in 1..Len(seq)}

\* the records of seq that carry requirement_id id, as positions
PositionsWithId(seq, id) == {i \in 1..Len(seq) : seq[i].requirement_id = id}

\* seq rearranged by the permutation p of its positions
Permuted(seq, p) == [i \in 1..Len(seq) |-> seq[p[i]]]

\* C1: for every input list the aggregator's output holds no two records with
\* the same non-empty requirement_id, and is no longer than the input.
C1_UniqueIdsAndNoGrowth ==
    agg_pc = "done" =>
        /\ \A i, j \in 1..Len(final_requirements) :
              (i # j /\ final_requirements[i].requirement_id # "")
                  => final_requirements[i].requirement_id
                         # final_requirements[j].requirement_id
        /\ Len(final_requirements) <= Len(all_requirements)

\* C1 witness: an aggregated input in which one non-empty id occurs twice and
\* a record was dropped.
C1_Witness ==
    /\ agg_pc = "done"
    /\ \E id \in ReqIdPool \ {""} :
          Cardinality(PositionsWithId(all_requirements, id)) >= 2
    /\ Len(final_requirements) < Len(all_requirements)
    /\ Len(final_requirements) >= 2

\* C2 (as claimed): an id emitted by two or more chunks with descriptions of
\* different lengths survives as exactly one record, the one with the longest
\* description.
C2_LongestDescriptionWins ==
    agg_pc = "done" =>
        \A id \in ReqIdPool \ {""} :
            LET ps == PositionsWithId(all_requirements, id)
                lens == {Len(all_requirements[i].description) : i \in ps}
            IN (Cardinality(ps) >= 2 /\ Cardinality(lens) >= 2) =>
                   /\ Cardinality(PositionsWithId(final_requirements, id)) = 1
                   /\ \A k \in PositionsWithId(final_requirements, id) :
                         \A n \in lens :
                             Len(final_requirements[k].description) >= n

\* C3 (as claimed): every permutation of the input aggregates to the same set
\* of records.
C3_OrderIndependent ==
    agg_pc = "done" =>
        \A p \in Permutations(1..Len(all_requirements)) :
            SeqToSet(_deduplicate_requirements(Permuted(all_requirements, p)))
                = SeqToSet(final_requirements)

\* C4 (as claimed): aggregating the aggregator's output again changes nothing,
\* up to element order.
C4_Idempotent ==
    agg_pc = "done" =>
        LET again == _deduplicate_requirements(final_requirements)
        IN /\ SeqToSet(again) = SeqToSet(final_requirements)
           /\ Len(again) = Len(final_requirements)

\* <<seen_ids, unique_requirements>> of _deduplicate_requirements after the
\* first n records of the input
RECURSIVE DedupStateAfter(_, _)
DedupStateAfter(requirements, n) ==
    IF n = 0 THEN <<{}, <<>>>>
    ELSE LET s == DedupStateAfter(requirements, n - 1)
         IN DedupStep(requirements[n], s[1], s[2])

\* C20 (as claimed): no record with an empty requirement_id is dropped by the
\* "req_id in seen_ids" test, however many records have an empty id.
C20_EmptyIdNeverSkippedById ==
    agg_pc = "done" =>
        \A i \in 1..Len(all_requirements) :
            all_requirements[i].requirement_id = ""
                => "" \notin DedupStateAfter(all_requirements, i - 1)[1]

\* the records of the input that chunks extracted (not the mock records, not
\* an element of the wrong type)
FromSucceededChunks(requirements) ==
    SelectSeq(requirements, LAMBDA r : r \in RequirementRecords)

\* C22 (as claimed): whatever failed in single chunks, the run returns the
\* aggregate of the requirements of the chunks that succeeded.
C22_ResultIsAggregateOfSucceededChunks ==
    agg_pc \in {"done", "mock_fallback"} =>
        final_requirements
            = _deduplicate_requirements(FromSucceededChunks(all_requirements))

(***************************************************************************)
(* Claims about assessment sessions                                        *)
(***************************************************************************)
\* the sessions committed by a completed run, of either kind
CompletedSessions == SeqToSet(ad_db.sessions) \cup SeqToSet(qs_db.sessions)

\* C5 (as claimed): the overall_score of a completed session is
\* (compliant_count * 100 + partial_count * 50) / total_count rounded to one
\* decimal place, and 0 for an empty list; compared in tenths.
C5_ScoreRoundedToOneDecimal ==
    \A s \in CompletedSessions :
        10 * s.overall_score[1] =
            IF s.total_requirements = 0 THEN 0
            ELSE RoundedQuotient(
                     10 * (s.compliant_count * 100 + s.partial_count * 50),
                     s.total_requirements)

\* C6 (as claimed): in every completed session the four status counts add up
\* to total_requirements.
C6_CountsSumToTotal ==
    \A s \in CompletedSessions :
        s.compliant_count + s.partial_count + s.non_compliant_count
            + s.not_addressed_count = s.total_requirements

\* C7 (as claimed): the assessment records committed by one document session
\* hold at most one record per requirement.
C7_OneAssessmentPerRequirement ==
    ad_pc = "committed" =>
        \A i, j \in 1..Len(ad_db.assessments) :
            i # j => ad_db.assessments[i].requirement_id
                        # ad_db.assessments[j].requirement_id

\* what a committed run leaves in the database: one completed session with
\* score and counts, and every assessment record of the run
CompleteRun(db, n_assessments) ==
    /\ Len(db.sessions) = 1
    /\ db.sessions[1].completed_at
    /\ db.sessions[1].overall_score # Null
    /\ db.sessions[1].total_requirements = n_assessments
    /\ Len(db.assessments) = n_assessments

\* C15: at every moment of an assessment run the database holds either
\* nothing of the run or, after its commit, the completed session together
\* with all of its assessment records; a failed run leaves nothing.
C15_AllOrNothing ==
    /\ \/ ad_db = EmptyDb
       \/ ad_pc = "committed" /\ ad_db.assessments = all_assessments
                              /\ CompleteRun(ad_db, Len(all_assessments))
    /\ \/ qs_db = EmptyDb
       \/ qs_pc = "committed" /\ CompleteRun(qs_db, Len(qs_questions))
    /\ ad_pc = "rolled_back" => ad_db = EmptyDb
    /\ qs_pc = "rolled_back" => qs_db = EmptyDb

\* C15 witness: a document run that failed after the session was flushed and
\* assessment records had been added, with nothing persisted.
C15_Witness ==
    /\ ad_pc = "rolled_back"
    /\ Len(all_assessments) >= 2
    /\ ad_db = EmptyDb

\* C19 (as claimed): every persisted assessment has a confidence_score in
\* [0.0, 1.0], in hundredths 0..100.
C19_ConfidenceNormalized ==
    \A k \in 1..Len(ad_db.assessments) :
        /\ ad_db.assessments[k].confidence_score >= 0
        /\ ad_db.assessments[k].confidence_score <= 100

\* C24 (as claimed): a committed document-assessment session holds exactly
\* one assessment for each requirement of the input requirement set.
C24_OneAssessmentPerRequirement ==
    ad_pc = "committed" =>
        \A r \in 1..Len(ad_catalog) :
            Cardinality({k \in 1..Len(ad_db.assessments) :
                            ad_db.assessments[k].requirement_id = ad_catalog[r].id}) = 1

(***************************************************************************)
(* Claims about the evidence-chunk merge                                   *)
(***************************************************************************)
\* the statuses of the findings collected for rule_id, in chunk order
FindingPositions(rule_id) ==
    {i \in 1..Len(all_findings) : all_findings[i].rule_id = rule_id}

\* severity order of the claim: NON_COMPLIANT > PARTIAL > COMPLIANT > no signal
Severity(status) ==
    CASE status = "non_conform" -> 3
      [] status = "partial" -> 2
      [] status = "conform" -> 1
      [] OTHER -> 0

\* C8 (as claimed): the merged status of a rule is the most severe status
\* among all its findings, with "no signal" (any other or missing status) the
\* weakest.
C8_MostSevereOfFour ==
    merge_pc = "merged" =>
        \A k \in 1..Len(final_findings) :
            \A i \in FindingPositions(final_findings[k].rule_id) :
                Severity(final_findings[k].status)
                    >= Severity(all_findings[i].status)

(***************************************************************************)
(* Claims about the fallback keyword assessor                              *)
(***************************************************************************)
\* the number of extracted concepts that occur verbatim in the evidence text
ConceptsFound(company_text, description) ==
    LET concepts == _extract_key_concepts(Lower(description))
    IN Cardinality({k \in 1..Len(concepts) :
                       IsSubstring(concepts[k], Lower(company_text))})

\* C9 (as claimed): NOT_ADDRESSED when no concept is found in the evidence
\* (also when none could be extracted), COMPLIANT when at least 70% of the
\* extracted concepts are found, PARTIAL when some but fewer are.
C9_StatusByShareFound ==
    fb_pc = "done" =>
        \A i \in 1..Len(fb_assessments) :
            LET n_concepts ==
                    Len(_extract_key_concepts(Lower(fb_requirements[i].description)))
                n_found == ConceptsFound(fb_company_text,
                                         fb_requirements[i].description)
            IN fb_assessments[i].status =
                   IF n_found = 0 THEN "NOT_ADDRESSED"
                   ELSE IF 10 * n_found >= 7 * n_concepts THEN "COMPLIANT"
                   ELSE "PARTIAL"

\* C10: the fallback assessor never reports NON_COMPLIANT: every status is
\* COMPLIANT, PARTIAL or NOT_ADDRESSED, and every confidence is 0.7.
C10_NeverNonCompliant ==
    fb_pc = "done" =>
        /\ Len(fb_assessments) = Len(fb_requirements)
        /\ \A i \in 1..Len(fb_assessments) :
              /\ fb_assessments[i].status \in {"COMPLIANT", "PARTIAL", "NOT_ADDRESSED"}
              /\ fb_assessments[i].confidence = 70

\* C10 witness: a requirement with extracted concepts none of which occurs in
\* a non-empty evidence text, assessed.
C10_Witness ==
    /\ fb_pc = "done"
    /\ fb_company_text # ""
    /\ \E i \in 1..Len(fb_assessments) :
          /\ _extract_key_concepts(Lower(fb_requirements[i].description)) # <<>>
          /\ ConceptsFound(fb_company_text, fb_requirements[i].description) = 0
          /\ fb_assessments[i].status = "NOT_ADDRESSED"

(***************************************************************************)
(* Claims about the segmenters                                             *)
(***************************************************************************)
RECURSIVE WordsFrom(_, _)
\* the maximal runs of non-whitespace of s from offset pos on
WordsFrom(s, pos) ==
    LET start == SpaceRunEnd(s, pos)
        end == RunEnd(s, start, LAMBDA c : ~IsSpace(c))
    IN IF start >= Len(s) THEN <<>>
       ELSE <<Slice(s, start, end)>> \o WordsFrom(s, end)

\* s without its whitespace
Squeeze(s) == Concat(WordsFrom(s, 0))

\* C11 (as claimed): no chunk returned for a user document is longer than
\* 1.5 times the chunk size.
C11_NoChunkOverBudget ==
    seg_pc = "user_chunks" =>
        \A k \in 1..Len(seg_chunks) : 2 * Len(seg_chunks[k]) <= 3 * seg_max_chars

\* C12 (as claimed): each segmenter returns at least one chunk for every
\* text, and exactly one empty chunk for the empty text.
C12_AtLeastOneChunk ==
    seg_pc \in {"user_chunks", "regulatory_chunks"} =>
        /\ Len(seg_chunks) >= 1
        /\ seg_text = "" => seg_chunks = <<"">>

\* C13 (as claimed): the chunks concatenated in order are the document, up
\* to whitespace: nothing else is dropped, duplicated or reordered.
C13_ChunksReproduceText ==
    seg_pc \in {"user_chunks", "regulatory_chunks"} =>
        Squeeze(Concat(seg_chunks)) = Squeeze(seg_text)

\* C25 (as claimed): for a user document shorter than the chunk size the
\* segmenter returns exactly one chunk, and that chunk holds the whole text
\* (compared without whitespace, which the segmenter may strip).
C25_ShortDocumentIsOneChunk ==
    (seg_pc = "user_chunks" /\ Len(seg_text) < seg_max_chars) =>
        /\ Len(seg_chunks) = 1
        /\ Squeeze(seg_chunks[1]) = Squeeze(seg_text)

(***************************************************************************)
(* Claims about the parse step                                             *)
(***************************************************************************)
\* C14 (as claimed): a response without a parsable JSON object, or whose
\* object has no "requirements" key, parses to the empty list.
C14_UnusableResponseYieldsNothing ==
    (/\ parse_pc \in {"extractor_parsed", "assistant_parsed"}
     /\ parse_result \in ResponsesWithoutJson \cup ResponsesWithoutKey)
        => chunk_requirements = <<>>

(***************************************************************************)
(* Claims about regulatory-document uploads                                *)
(***************************************************************************)
\* C16 (as claimed): within the jurisdiction's persisted catalog no two rows
\* carry the same requirement_id, whatever the uploads and their interleaving.
C16_CatalogIdsUnique ==
    \A a, b \in 1..Len(catalog) :
        catalog[a].requirement_id = catalog[b].requirement_id => a = b

\* C18 (as claimed): a processing run whose extraction yielded no requirement
\* never ends with the document 'completed' and is_processed.
C18_EmptyRunNotCompleted ==
    \A u \in Uploads :
        ~ /\ uploads[u].path = "admin"
          /\ uploads[u].pc = "done"
          /\ uploads[u].requirements = <<>>
          /\ uploads[u].processing_status = "completed"
          /\ uploads[u].is_processed

(***************************************************************************)
(* Claims about the waits for an assistant run                             *)
(***************************************************************************)
\* C17 (as claimed): whatever statuses the provider reports, the wait ends:
\* the waiting function eventually returns.
C17_EveryWaitReturns == <>(poll_pc = "returned")

(***************************************************************************)
(* Claims about extract_requirements                                       *)
(***************************************************************************)
\* the requirement ids of the example set the specification names for a
\* framework
ExampleIds(framework) ==
    CASE framework = "eu_ai_act" -> <<"Article_5.1.a", "Article_6.1">>
      [] framework = "iso_42001" -> <<"Clause_4.1", "Clause_5.1">>
      [] framework = "us_ai_governance" -> <<"GOVERN-1.1", "MAP-1.1">>
      [] OTHER -> <<"Article_5.1.a", "Article_6.1">>

C23_CriticalityInClosedSet ==
    /\ \A k \in 1..Len(catalog) :
          catalog[k].criticality \in {"LOW", "MEDIUM", "HIGH", "CRITICAL"}
    /\ \A u \in Uploads : uploads[u].processing_status # "failed"

\* C28 (as claimed): no requirement row of a run whose document ended 'failed'
\* is persisted.
C28_FailedRunPersistsNothing ==
    \A u \in Uploads :
        uploads[u].processing_status = "failed" =>
            \A k \in 1..Len(catalog) : catalog[k].source_document_id # u

\* C29 (as claimed): when a processing run has ended, the assistant it
\* created is the one its jurisdiction references.
C29_NoAssistantLeaked ==
    \A u \in Uploads :
        (uploads[u].pc = "done" /\ u \in provider_assistants)
            => jurisdiction_assistant = u

\* C30 (as claimed): a document in 'processing' eventually is 'completed' or
\* 'failed'.
C30_ProcessingEnds ==
    \A u \in Uploads :
        (uploads[u].processing_status = "processing")
            ~> (uploads[u].processing_status \in {"completed", "failed"})

\* the near-duplicate relation of the aggregator on two records' titles
NearDuplicates(a, b) == TitlesSimilar(Lower(a.title), Lower(b.title))

\* C26 (as claimed): no two records of the aggregator's output have titles
\* that are near-duplicates of each other.
C26_OutputFreeOfNearDuplicates ==
    agg_pc = "done" =>
        \A a, b \in 1..Len(final_requirements) :
            a # b => ~NearDuplicates(final_requirements[a], final_requirements[b])

\* C27 (as claimed): every record of the aggregator's input is represented in
\* its output, by a record with the same requirement_id or by a record whose
\* title is a near-duplicate of its title.
C27_NoRequirementLost ==
    agg_pc = "done" =>
        \A k \in 1..Len(all_requirements) :
            \E m \in 1..Len(final_requirements) :
                \/ final_requirements[m].requirement_id = all_requirements[k].requirement_id
                \/ NearDuplicates(final_requirements[m], all_requirements[k])

====
